---- MODULE Spec2Model ----
(***************************************************************************)
(* Animation state machine editor (src/animation/editor/                   *)
(* state_machine_editor.cpp): the event track of a node, kept as one byte  *)
(* buffer (headers first, payloads after), and the editor graph of         *)
(* state machines, nodes, edges and entry edges with its engine twin.      *)
(***************************************************************************)
EXTENDS Integers, Naturals, Sequences, FiniteSets, TLC

(***************************************************************************)
(* Part 1: the event track of one engine node.                             *)
(***************************************************************************)

\* sizeof(Anim::EventHeader): float time, u8 type, u8 size, u16 offset.
HeaderSize == 8
\* sizeof(Anim::SetInputEvent): int input_idx, 4 bytes of value.
SetInputEventSize == 8
\* Anim::EventHeader::SET_INPUT
SET_INPUT == 0

\* Number of "Add event" clicks a behaviour may hold (the buffer never shrinks).
MaxAdds == 2
\* Values a byte that the code never wrote may hold after Array::resize.
FillBytes == {0, 1}
\* Values the property panel writes into header.time and into the event's value.
PanelValues == {0, 1}
\* Indices of the inputs declared by the controller, offered by the "Input" combo.
InputIdxs == {0, 1}

VARIABLES
    events,        \* Anim::Node::events, the byte buffer (0-based in the code)
    events_count   \* Anim::Node::events_count

evars == <<events, events_count>>

\* The state of the editor graph (Part 2).
VARIABLES
    objs,              \* the editor components, by address (destroyed ones keep their bytes)
    eobjs,             \* the engine components, by address
    m_root,            \* ControllerResource::m_root
    m_last_uid,        \* ControllerResource::m_last_uid
    m_animation_slots, \* ControllerResource::m_animation_slots
    blob,              \* the stream written by the last serialize (the saved file)
    crashed,           \* the process was stopped by an access to a destroyed object
    loaded             \* the graph was built by deserialize (history)

gvars == <<objs, eobjs, m_root, m_last_uid, m_animation_slots, blob, crashed, loaded>>

\* The input declaration of the engine resource (Part 3).
VARIABLES
    decl               \* Anim::ControllerResource::getInputDecl()

dvars == <<decl>>
vars == <<events, events_count, objs, eobjs, m_root, m_last_uid, m_animation_slots,
          blob, crashed, loaded, decl>>

\* events[i] of the code (0-based) on a buffer value.
ByteAt(buf, i) == buf[i + 1]

\* moveMemory(dest, src, count) on the buffer: memmove, the source is read whole
\* before the destination is written.
MoveMemory(buf, dest, src, count) ==
    [k \in 1..Len(buf) |->
        IF k - 1 >= dest /\ k - 1 < dest + count
        THEN buf[(k - 1) - dest + src + 1]
        ELSE buf[k]]

\* The fields of the EventHeader stored at header slot i of buf.
HeaderTime(buf, i) == ByteAt(buf, HeaderSize * i)
HeaderType(buf, i) == ByteAt(buf, HeaderSize * i + 4)
HeaderEvSize(buf, i) == ByteAt(buf, HeaderSize * i + 5)
HeaderOffset(buf, i) ==
    ByteAt(buf, HeaderSize * i + 6) + 256 * ByteAt(buf, HeaderSize * i + 7)

\* The eight bytes of an EventHeader value.
HeaderBytes(time, type, size, offset) ==
    <<time, 0, 0, 0, type, size, offset % 256, offset \div 256>>

\* Writing bytes bs into buf from position at (0-based).
WriteBytes(buf, at, bs) ==
    [k \in 1..Len(buf) |->
        IF k - 1 >= at /\ k - 1 < at + Len(bs) THEN bs[k - at] ELSE buf[k]]

\* Array<u8>::resize to a larger size: the new bytes are not initialised.
Resize(buf, newsize, fill) ==
    [k \in 1..newsize |-> IF k <= Len(buf) THEN buf[k] ELSE fill]

\* The newEvent lambda without its moveMemory of the old payload.
newEventNoMove(buf, count, size, type, fill) ==
    LET old_payload_size == Len(buf) - HeaderSize * count
        resized == Resize(buf, Len(buf) + size + HeaderSize, fill)
    IN  WriteBytes(resized, HeaderSize * count,
                   HeaderBytes(0, type, size, old_payload_size))

\* The newEvent lambda of Node::onGUI: the buffer after one "Add event".
newEvent(buf, count, size, type, fill) ==
    LET old_payload_size == Len(buf) - HeaderSize * count
        resized == Resize(buf, Len(buf) + size + HeaderSize, fill)
        headers_end == HeaderSize * count
        moved == MoveMemory(resized, headers_end + HeaderSize, headers_end,
                            old_payload_size)
    IN  WriteBytes(moved, HeaderSize * count,
                   HeaderBytes(0, type, size, old_payload_size))

\* Node::removeEvent(index) on the buffer: the buffer afterwards.
removeEvent(buf, count, index) ==
    LET hoffset == HeaderOffset(buf, index)
        hsize == HeaderEvSize(buf, index)
        headers_end == HeaderSize * count
        end == Len(buf)
        event_start == headers_end + hoffset
        event_end == event_start + hsize
        header_start == HeaderSize * index
        header_end == header_start + HeaderSize
        b1 == MoveMemory(buf, header_start, header_end, event_start - header_end)
    IN  MoveMemory(b1, event_start - HeaderSize, event_end, end - event_end)

\* What the event list of Node::onGUI did so far in one pass: the buffer, the
\* count and, in order, the steps taken: "header" when the header of event
\* index was bound and its widgets were shown, "removeEvent" when it was removed.
PassAt(buf, count, log) == [events |-> buf, events_count |-> count, log |-> log]
PassStep(op, index) == [op |-> op, index |-> index]

\* The "Remove" button of no event.
NoClick == -1

RECURSIVE EventListPassNoBreak(_, _, _, _, _, _)
\* The loop of Node::onGUI without the break after removeEvent.
EventListPassNoBreak(buf, count, open, remove, i, log) ==
    IF i >= count THEN PassAt(buf, count, log)
    ELSE IF i \notin open THEN EventListPassNoBreak(buf, count, open, remove, i + 1, log)
    ELSE IF remove = i
         THEN EventListPassNoBreak(removeEvent(buf, count, i), count - 1, open, NoClick, i + 1,
                                   log \o <<PassStep("header", i), PassStep("removeEvent", i)>>)
         ELSE EventListPassNoBreak(buf, count, open, remove, i + 1,
                                   Append(log, PassStep("header", i)))

RECURSIVE EventListPass(_, _, _, _, _, _)
\* The loop over the events in Node::onGUI from event i on, in a frame in which
\* the tree nodes of the events in open are open and the "Remove" button of
\* event remove is pressed (no other widget is changed): the header of an open
\* event is bound, then removeEvent(i) and break when its button is pressed,
\* else its widgets are shown.
EventListPass(buf, count, open, remove, i, log) ==
    IF i >= count THEN PassAt(buf, count, log)
    ELSE IF i \notin open THEN EventListPass(buf, count, open, remove, i + 1, log)
    ELSE IF remove = i
         THEN PassAt(removeEvent(buf, count, i), count - 1,
                     log \o <<PassStep("header", i), PassStep("removeEvent", i)>>)
         ELSE EventListPass(buf, count, open, remove, i + 1,
                            Append(log, PassStep("header", i)))

\* Position in the buffer of the payload that header i addresses.
PayloadStart(buf, count, i) == HeaderSize * count + HeaderOffset(buf, i)

\* The payload bytes that header i addresses, as the GUI reads them.
PayloadOf(buf, count, i) ==
    [k \in 1..HeaderEvSize(buf, i) |-> ByteAt(buf, PayloadStart(buf, count, i) + k - 1)]

\* "Add event" button of Node::onGUI.
AddEvent ==
    /\ Len(events) < MaxAdds * (HeaderSize + SetInputEventSize)
    /\ \E fill \in FillBytes :
          events' = newEvent(events, events_count, SetInputEventSize, SET_INPUT, fill)
    /\ events_count' = events_count + 1
    /\ UNCHANGED gvars
    /\ UNCHANGED dvars

\* "Remove" button of event i in Node::onGUI.
RemoveEvent(index) ==
    /\ index < events_count
    /\ events' = removeEvent(events, events_count, index)
    /\ events_count' = events_count - 1
    /\ UNCHANGED gvars
    /\ UNCHANGED dvars

\* ImGui::InputFloat("Time", &header.time) of event i.
EditTime(i, t) ==
    /\ i < events_count
    /\ events' = WriteBytes(events, HeaderSize * i, <<t>>)
    /\ UNCHANGED events_count
    /\ UNCHANGED gvars
    /\ UNCHANGED dvars

\* ImGui::Combo("Input", &event->input_idx, ...) of event i.
EditInput(i, idx) ==
    /\ i < events_count
    /\ HeaderType(events, i) = SET_INPUT
    /\ events' = WriteBytes(events, PayloadStart(events, events_count, i), <<idx>>)
    /\ UNCHANGED events_count
    /\ UNCHANGED gvars
    /\ UNCHANGED dvars

\* The value widget of event i, shown when input_idx names a declared input.
EditValue(i, v) ==
    /\ i < events_count
    /\ HeaderType(events, i) = SET_INPUT
    /\ ByteAt(events, PayloadStart(events, events_count, i)) \in InputIdxs
    /\ events' = WriteBytes(events, PayloadStart(events, events_count, i) + 4, <<v>>)
    /\ UNCHANGED events_count
    /\ UNCHANGED gvars
    /\ UNCHANGED dvars

EventsInit ==
    /\ events = <<>>
    /\ events_count = 0

EventsNext ==
    \/ AddEvent
    \/ \E i \in 0..(MaxAdds - 1) : RemoveEvent(i)
    \/ \E i \in 0..(MaxAdds - 1), t \in PanelValues : EditTime(i, t)
    \/ \E i \in 0..(MaxAdds - 1), idx \in InputIdxs : EditInput(i, idx)
    \/ \E i \in 0..(MaxAdds - 1), v \in PanelValues : EditValue(i, v)

\* Events of the track the event list pass is followed on: one more than
\* MaxAdds, so that an event can be removed in front of two others.
PassEvents == MaxAdds + 1

RECURSIVE TracksOf(_)
\* The tracks n "Add event" clicks build from the empty one.
TracksOf(n) ==
    IF n = 0 THEN {<<>>}
    ELSE {newEvent(t, n - 1, SetInputEventSize, SET_INPUT, fill) :
             t \in TracksOf(n - 1), fill \in FillBytes}

(***************************************************************************)
(* Part 2: the editor graph (AnimEditor::Component and its subclasses) and *)
(* its engine twin (Anim::Component and its subclasses).                   *)
(***************************************************************************)

\* nullptr
NULL == 0
\* Anim::Component::uid of an engine component that was given none (the root).
NoUid == -1

\* UIDs a controller may hand out in one behaviour.
MaxUID == 4
\* Editor components the heap may hold.
MaxObjs == 6
\* Canvas positions handed to createState.
Positions == {0}
\* Node::m_name: 0 is "", 1 is "Entry".
EntryName == 1
\* AnimationNode::root_rotation_input when no input is selected.
NoInput == -1
\* Anim::AnimationNode::root_rotation_input_offset when the feature is off.
NoOffset == -1

\* The inputs a controller can declare, with their types (Anim::InputDecl).
InputNames == {"a", "b"}
InputType(name) == IF name = "a" THEN "bool" ELSE "int"
\* Bytes an input of that type takes in the input buffer.
InputSize(type) == IF type = "bool" THEN 1 ELSE 4

\* Anim::InputDecl::inputs has a fixed number of slots; inputs_count of them
\* are the current inputs, the others keep what was last written to them.
InputsCapacity == Cardinality(InputNames)
EmptySlot == [name |-> "", type |-> "", offset |-> 0]
EmptyDecl == [inputs |-> [i \in 1..InputsCapacity |-> EmptySlot], inputs_count |-> 0]

\* Offset of slot i (from 1): the sizes of the inputs before it.
RECURSIVE OffsetOf(_, _)
OffsetOf(inputs, i) ==
    IF i = 1 THEN 0 ELSE OffsetOf(inputs, i - 1) + InputSize(inputs[i - 1].type)

\* The current inputs get contiguous offsets in declaration order.
RecalculateOffsets(d) ==
    [d EXCEPT !.inputs = [i \in 1..InputsCapacity |->
                             IF i <= d.inputs_count
                             THEN [d.inputs[i] EXCEPT !.offset = OffsetOf(d.inputs, i)]
                             ELSE d.inputs[i]]]

\* An input is declared: it takes the first slot after the current inputs.
DeclareInput(d, name) ==
    RecalculateOffsets(
        [d EXCEPT !.inputs[d.inputs_count + 1] =
                      [name |-> name, type |-> InputType(name), offset |-> 0],
                  !.inputs_count = @ + 1])

\* Input i (from 0) is removed: the inputs after it move one slot down, and the
\* slot the last one leaves keeps its content.
RemoveInputAt(d, i) ==
    RecalculateOffsets(
        [d EXCEPT !.inputs = [k \in 1..InputsCapacity |->
                                 IF k > i /\ k < d.inputs_count THEN d.inputs[k + 1]
                                 ELSE d.inputs[k]],
                  !.inputs_count = @ - 1])

\* The names of the current inputs.
Declared(d) == {d.inputs[i].name : i \in 1..d.inputs_count}

\* Offset of the current input of that name.
Resolve(d, name) ==
    d.inputs[CHOOSE i \in 1..d.inputs_count : d.inputs[i].name = name].offset

\* Expression texts: the empty text a new Edge has, which is no expression,
\* and a condition over both inputs.
Texts == {"", "a && b > 1"}
WellFormed(text) == text # ""
Identifiers(text) == IF text = "a && b > 1" THEN <<"a", "b">> ELSE <<>>

\* The condition an engine Edge or entry has before anything compiled into it,
\* and the one a text with an unknown identifier compiles to.
AlwaysFalse == [text |-> "", offsets |-> <<>>]

\* Anim::Condition::compile(text, decl) on a condition that holds previous: a
\* text that is no expression leaves the condition as it was, one that names
\* an input that is not declared gives the always-false condition, any other
\* is bound to the offsets of the inputs it names.
ConditionCompile(text, d, previous) ==
    IF ~WellFormed(text) THEN previous
    ELSE LET ids == Identifiers(text) IN
         IF \E i \in 1..Len(ids) : ids[i] \notin Declared(d) THEN AlwaysFalse
         ELSE [text |-> text, offsets |-> [i \in 1..Len(ids) |-> Resolve(d, ids[i])]]

\* Array<T>::eraseItem: erases the first element equal to x, if any.
EraseItem(seq, x) ==
    IF \E i \in 1..Len(seq) : seq[i] = x
    THEN LET i == CHOOSE k \in 1..Len(seq) : seq[k] = x /\ \A j \in 1..(k - 1) : seq[j] # x
         IN  SubSeq(seq, 1, i - 1) \o SubSeq(seq, i + 1, Len(seq))
    ELSE seq

\* Array<T>::erase(index), index counted from 1 here.
EraseAt(seq, i) == SubSeq(seq, 1, i - 1) \o SubSeq(seq, i + 1, Len(seq))

\* Array<T>::back
Back(seq) == seq[Len(seq)]

\* An editor component as its constructor chain leaves it (Component, Node,
\* Container constructors).
NewComponent(kind, engine_cmp, parent) ==
    [kind |-> kind, live |-> TRUE, dying |-> FALSE,
     m_parent |-> parent, engine_cmp |-> engine_cmp,
     pos |-> 0, m_name |-> 0,
     m_edges |-> <<>>, m_in_edges |-> <<>>,
     m_editor_cmps |-> <<>>, m_selected_component |-> NULL, m_entry_node |-> NULL,
     entries |-> <<>>,
     m_from |-> NULL, m_to |-> NULL, expression |-> "",
     root_rotation_input |-> NoInput]

\* An engine component as Anim::createComponent / LUMIX_NEW leaves it.
NewEngineComponent(type) ==
    [type |-> type, uid |-> NoUid, children |-> <<>>, entries |-> <<>>,
     from |-> NULL, to |-> NULL,
     condition |-> AlwaysFalse, root_rotation_input_offset |-> NoOffset]

\* Component::isNode
IsNode(H, c) == H.o[c].kind \in {"sm", "anim", "entry_node"}

\* Container::getChildByUID that takes a child without an engine twin for one
\* whose uid is not set.
GetChildByUIDNoTwinTest(H, p, uid) ==
    LET cs == H.o[p].m_editor_cmps
        Hit(i) == IF H.o[cs[i]].engine_cmp = NULL THEN uid = NoUid
                  ELSE H.e[H.o[cs[i]].engine_cmp].uid = uid
    IN  IF \E i \in 1..Len(cs) : Hit(i)
        THEN cs[CHOOSE i \in 1..Len(cs) : Hit(i) /\ \A j \in 1..(i - 1) : ~Hit(j)]
        ELSE NULL

\* Container::getChildByUID: the first child with an engine twin of that uid.
GetChildByUID(H, p, uid) ==
    LET cs == H.o[p].m_editor_cmps
        Hit(i) == H.o[cs[i]].engine_cmp # NULL /\ H.e[H.o[cs[i]].engine_cmp].uid = uid
    IN  IF \E i \in 1..Len(cs) : Hit(i)
        THEN cs[CHOOSE i \in 1..Len(cs) : Hit(i) /\ \A j \in 1..(i - 1) : ~Hit(j)]
        ELSE NULL

\* Container::removeChild without the test on m_selected_component.
ContainerRemoveChildKeepSelected(H, p, c) ==
    LET ec == H.o[p].engine_cmp IN
    [H EXCEPT !.e[ec].children = EraseItem(@, H.o[c].engine_cmp),
              !.o[p].m_editor_cmps = EraseItem(@, c)]

\* Array<T>::eraseItemFast: the last element takes the place of the first equal to x.
EraseItemFast(seq, x) ==
    IF \E i \in 1..Len(seq) : seq[i] = x
    THEN LET i == CHOOSE k \in 1..Len(seq) : seq[k] = x /\ \A j \in 1..(k - 1) : seq[j] # x
         IN  SubSeq([seq EXCEPT ![i] = Back(seq)], 1, Len(seq) - 1)
    ELSE seq

\* Container::removeChild with eraseItemFast on the child lists.
ContainerRemoveChildFast(H, p, c) ==
    LET ec == H.o[p].engine_cmp IN
    [H EXCEPT !.e[ec].children = EraseItemFast(@, H.o[c].engine_cmp),
              !.o[p].m_editor_cmps = EraseItemFast(@, c),
              !.o[p].m_selected_component = IF @ = c THEN NULL ELSE @]

\* Container::removeChild without the eraseItem on the engine's child list.
ContainerRemoveChildEditorOnly(H, p, c) ==
    [H EXCEPT !.o[p].m_editor_cmps = EraseItem(@, c),
              !.o[p].m_selected_component = IF @ = c THEN NULL ELSE @]

\* Container::removeChild
ContainerRemoveChild(H, p, c) ==
    LET ec == H.o[p].engine_cmp IN
    [H EXCEPT !.e[ec].children = EraseItem(@, H.o[c].engine_cmp),
              !.o[p].m_editor_cmps = EraseItem(@, c),
              !.o[p].m_selected_component = IF @ = c THEN NULL ELSE @]

\* Index (from 1) of the first engine entry of sm whose node is engine component n, or 0.
FirstEntryOf(H, ec, n) ==
    LET ents == H.e[ec].entries IN
    IF \E i \in 1..Len(ents) : ents[i].node = n
    THEN CHOOSE i \in 1..Len(ents) : ents[i].node = n /\ \A j \in 1..(i - 1) : ents[j].node # n
    ELSE 0

RECURSIVE Destroy(_, _)
RECURSIVE DestroyEdges(_, _)
RECURSIVE DestroyInEdges(_, _)
RECURSIVE DestroyChildren(_, _)
RECURSIVE RemoveChild(_, _, _)

\* StateMachine::removeChild
StateMachineRemoveChild(H, p, c) ==
    LET H1 == ContainerRemoveChild(H, p, c)
        ec == H.o[p].engine_cmp
        i == FirstEntryOf(H1, ec, H.o[c].engine_cmp)
    IN  IF i = 0 THEN H1
        ELSE LET H2 == [H1 EXCEPT !.e[ec].entries = EraseAt(@, i)]
                 editor_entries == H2.o[H2.o[p].m_entry_node].entries
             IN  IF i > Len(editor_entries)
                 THEN [H2 EXCEPT !.ub = TRUE]
                 ELSE Destroy(H2, editor_entries[i])

\* parent->removeChild(c), a virtual call: once the parent runs ~Container its
\* StateMachine part is gone and Container::removeChild is what runs.
RemoveChild(H, p, c) ==
    IF H.o[p].dying THEN ContainerRemoveChild(H, p, c) ELSE StateMachineRemoveChild(H, p, c)

\* Edge::~Edge body; a null endpoint is dereferenced.
EdgeDtor(H, c) ==
    IF H.o[c].m_from = NULL \/ H.o[c].m_to = NULL THEN [H EXCEPT !.null = TRUE]
    ELSE [H EXCEPT !.o[H.o[c].m_from].m_edges = EraseItem(@, c),
                   !.o[H.o[c].m_to].m_in_edges = EraseItem(@, c)]

\* Node::~Node, first loop (a null dereference on the way stops the process)
DestroyEdges(H, c) ==
    IF H.null \/ H.o[c].m_edges = <<>> THEN H
    ELSE DestroyEdges(Destroy(H, Back(H.o[c].m_edges)), c)

\* Node::~Node, second loop
DestroyInEdges(H, c) ==
    IF H.null \/ H.o[c].m_in_edges = <<>> THEN H
    ELSE DestroyInEdges(Destroy(H, Back(H.o[c].m_in_edges)), c)

\* Container::~Container
DestroyChildren(H, c) ==
    IF H.null \/ H.o[c].m_editor_cmps = <<>> THEN H
    ELSE DestroyChildren(Destroy(H, Back(H.o[c].m_editor_cmps)), c)

\* LUMIX_DELETE(allocator, c): the destructor chain of c, most derived first.
\* Deleting an object that is already destroyed is undefined; in the outcome
\* followed here the destructor runs again over the bytes the object left.
Destroy(H, c) ==
    LET obj == H.o[c]
        H0 == IF obj.live THEN H ELSE [H EXCEPT !.ub = TRUE]
        derived ==
            CASE obj.kind = "edge" -> EdgeDtor(H0, c)
              [] obj.kind = "entry_edge" -> RemoveChild(H0, obj.m_parent, c)
              [] obj.kind = "sm" ->
                    DestroyInEdges(DestroyEdges(
                        DestroyChildren([H0 EXCEPT !.o[c].dying = TRUE], c), c), c)
              [] OTHER -> DestroyInEdges(DestroyEdges(H0, c), c)
        base == IF obj.m_parent # NULL THEN RemoveChild(derived, obj.m_parent, c) ELSE derived
    IN  [base EXCEPT !.o[c].live = FALSE]

\* StateMachine::StateMachine (with the EntryNode it creates): the new state
\* machine is at address Len(H.o) + 1, its entry node right after it.
NewStateMachine(H, engine_cmp, parent) ==
    LET id == Len(H.o) + 1
        sm == [NewComponent("sm", engine_cmp, parent) EXCEPT
                  !.m_entry_node = id + 1, !.m_editor_cmps = <<id + 1>>]
        entry == [NewComponent("entry_node", NULL, id) EXCEPT !.m_name = EntryName]
    IN  [H EXCEPT !.o = Append(Append(@, sm), entry)]

\* AnimationNode::AnimationNode
NewAnimationNode(H, engine_cmp, parent) ==
    [H EXCEPT !.o = Append(@, NewComponent("anim", engine_cmp, parent))]

\* Edge::Edge: looks its endpoints up by the uids of the engine edge's endpoints
\* and registers on both; a null endpoint is dereferenced.
NewEdge(H, engine_cmp, parent) ==
    LET id == Len(H.o) + 1
        from == GetChildByUID(H, parent, H.e[H.e[engine_cmp].from].uid)
        to == GetChildByUID(H, parent, H.e[H.e[engine_cmp].to].uid)
        edge == [NewComponent("edge", engine_cmp, parent) EXCEPT !.m_from = from, !.m_to = to]
    IN  IF from = NULL \/ to = NULL
        THEN [H EXCEPT !.o = Append(@, edge), !.null = TRUE]
        ELSE [H EXCEPT !.o = [[Append(@, edge) EXCEPT ![from].m_edges = Append(@, id)]
                                               EXCEPT ![to].m_in_edges = Append(@, id)]]

\* EntryEdge::EntryEdge
NewEntryEdge(H, parent, to) ==
    LET id == Len(H.o) + 1
        edge == [NewComponent("entry_edge", NULL, parent) EXCEPT !.m_to = to]
    IN  [H EXCEPT !.o = [Append(@, edge) EXCEPT ![H.o[parent].m_entry_node].entries = Append(@, id)]]

\* createComponent(engine_cmp, parent, controller); the new component is at
\* address Len(H.o) + 1.
CreateComponent(H, engine_cmp, parent) ==
    CASE H.e[engine_cmp].type = "edge" -> NewEdge(H, engine_cmp, parent)
      [] H.e[engine_cmp].type = "anim" -> NewAnimationNode(H, engine_cmp, parent)
      [] H.e[engine_cmp].type = "sm" -> NewStateMachine(H, engine_cmp, parent)

\* StateMachine::createState that leaves the new engine component without a uid.
CreateStateNoUid(H, sm, type, pos, uid) ==
    LET eid == Len(H.e) + 1
        id == Len(H.o) + 1
        H1 == CreateComponent([H EXCEPT !.e = Append(@, NewEngineComponent(type))], eid, sm)
    IN  [H1 EXCEPT !.o[id].pos = pos,
                   !.o[sm].m_editor_cmps = Append(@, id),
                   !.e[H.o[sm].engine_cmp].children = Append(@, eid),
                   !.o[sm].m_selected_component = id]

\* StateMachine::createState that does not select the new component.
CreateStateNoSelect(H, sm, type, pos, uid) ==
    LET eid == Len(H.e) + 1
        id == Len(H.o) + 1
        H1 == CreateComponent([H EXCEPT !.e = Append(@, NewEngineComponent(type))], eid, sm)
    IN  [H1 EXCEPT !.o[id].pos = pos,
                   !.e[eid].uid = uid,
                   !.o[sm].m_editor_cmps = Append(@, id),
                   !.e[H.o[sm].engine_cmp].children = Append(@, eid)]

\* StateMachine::createState(type, pos); uid is the value of createUID().
CreateState(H, sm, type, pos, uid) ==
    LET eid == Len(H.e) + 1
        id == Len(H.o) + 1
        H1 == CreateComponent([H EXCEPT !.e = Append(@, NewEngineComponent(type))], eid, sm)
    IN  [H1 EXCEPT !.o[id].pos = pos,
                   !.e[eid].uid = uid,
                   !.o[sm].m_editor_cmps = Append(@, id),
                   !.e[H.o[sm].engine_cmp].children = Append(@, eid),
                   !.o[sm].m_selected_component = id]

\* StateMachine::createEntryEdge(node)
CreateEntryEdge(H, sm, node) ==
    LET id == Len(H.o) + 1
        H1 == NewEntryEdge(H, sm, node)
    IN  [H1 EXCEPT !.o[sm].m_editor_cmps = Append(@, id),
                   !.e[H.o[sm].engine_cmp].entries = Append(@, [node |-> H.o[node].engine_cmp, condition |-> AlwaysFalse])]

\* The edge branch of StateMachine::drawInside (mouse released over hit_cmp while
\* dragging a new edge from m_drag_source); uid is the value of createUID().
CreateEdge(H, sm, drag_source, hit_cmp, uid) ==
    LET eid == Len(H.e) + 1
        id == Len(H.o) + 1
        engine_edge == [NewEngineComponent("edge") EXCEPT
                           !.uid = uid,
                           !.from = H.o[drag_source].engine_cmp,
                           !.to = H.o[hit_cmp].engine_cmp]
        H1 == [H EXCEPT !.e = [Append(@, engine_edge) EXCEPT
                                  ![H.o[sm].engine_cmp].children = Append(@, eid)]]
        H2 == NewEdge(H1, eid, sm)
    IN  [H2 EXCEPT !.o[sm].m_editor_cmps = Append(@, id),
                   !.o[sm].m_selected_component = id]

\* StateMachine::drawInside without the test hit_cmp != m_drag_source.
NewEdgeReleasedNoDistinct(H, sm, drag_source, hit_cmp, last_uid) ==
    IF IsNode(H, hit_cmp)
    THEN IF hit_cmp = H.o[sm].m_entry_node
         THEN [H |-> CreateEntryEdge(H, sm, drag_source), m_last_uid |-> last_uid]
         ELSE IF drag_source = H.o[sm].m_entry_node
         THEN [H |-> CreateEntryEdge(H, sm, hit_cmp), m_last_uid |-> last_uid]
         ELSE [H |-> CreateEdge(H, sm, drag_source, hit_cmp, last_uid + 1),
               m_last_uid |-> last_uid + 1]
    ELSE [H |-> H, m_last_uid |-> last_uid]

\* StateMachine::drawInside, right button released over hit_cmp while
\* m_mouse_status is NEW_EDGE and m_drag_source is drag_source: the heap and
\* the UID counter (createUID is called in the Edge branch only) afterwards.
NewEdgeReleased(H, sm, drag_source, hit_cmp, last_uid) ==
    IF hit_cmp # drag_source /\ IsNode(H, hit_cmp)
    THEN IF hit_cmp = H.o[sm].m_entry_node
         THEN [H |-> CreateEntryEdge(H, sm, drag_source), m_last_uid |-> last_uid]
         ELSE IF drag_source = H.o[sm].m_entry_node
         THEN [H |-> CreateEntryEdge(H, sm, hit_cmp), m_last_uid |-> last_uid]
         ELSE [H |-> CreateEdge(H, sm, drag_source, hit_cmp, last_uid + 1),
               m_last_uid |-> last_uid + 1]
    ELSE [H |-> H, m_last_uid |-> last_uid]

(***************************************************************************)
(* Serialization.  The stream is a sequence of integers; the engine's own  *)
(* part of the stream (Anim::ControllerResource::serialize) precedes the   *)
(* editor's and is kept as the tree of the engine components.              *)
(***************************************************************************)

\* uid of the engine twin of editor component c.
UidOf(H, c) == H.e[H.o[c].engine_cmp].uid

\* The format revision Anim::ControllerResource stamps at the start of the
\* stream, and the revision of a file another version of the editor wrote.
Revision == 1
OtherRevision == 0

RECURSIVE EngineSerialize(_, _)
\* Anim::Component::serialize and its overrides: the engine component ec with
\* its children, the endpoints of an edge and the entry nodes as uids, and the
\* compiled data: the condition of an edge and of each entry, the root-rotation
\* offset of a leaf.
EngineSerialize(E, ec) ==
    [type |-> E[ec].type,
     uid |-> E[ec].uid,
     from |-> IF E[ec].from = NULL THEN NoUid ELSE E[E[ec].from].uid,
     to |-> IF E[ec].to = NULL THEN NoUid ELSE E[E[ec].to].uid,
     condition |-> E[ec].condition,
     root_rotation_input_offset |-> E[ec].root_rotation_input_offset,
     entry_conditions |-> [i \in 1..Len(E[ec].entries) |-> E[ec].entries[i].condition],
     children |-> [i \in 1..Len(E[ec].children) |-> EngineSerialize(E, E[ec].children[i])],
     entries |-> [i \in 1..Len(E[ec].entries) |->
                     IF E[ec].entries[i].node = NULL THEN NoUid
                     ELSE E[E[ec].entries[i].node].uid]]

\* Anim::Container::getChildByUID
EngineGetChildByUID(E, ec, uid) ==
    LET cs == E[ec].children IN
    IF \E i \in 1..Len(cs) : E[cs[i]].uid = uid
    THEN cs[CHOOSE i \in 1..Len(cs) : E[cs[i]].uid = uid /\ \A j \in 1..(i - 1) : E[cs[j]].uid # uid]
    ELSE NULL

RECURSIVE EngineResolvable(_)
\* Anim::ControllerResource::deserialize fails on a uid it cannot resolve:
\* every endpoint of an edge and every node of an entry is the uid of a child
\* of the same container, in this container and in those below it.
EngineResolvable(tree) ==
    LET uids == {tree.children[i].uid : i \in 1..Len(tree.children)} IN
    /\ \A i \in 1..Len(tree.children) :
          /\ tree.children[i].type = "edge" =>
                {tree.children[i].from, tree.children[i].to} \subseteq uids
          /\ EngineResolvable(tree.children[i])
    /\ \A i \in 1..Len(tree.entries) : tree.entries[i] \in uids

RECURSIVE EngineDeserialize(_, _, _)
RECURSIVE EngineDeserializeChildren(_, _, _, _)

\* The children of the engine container at address id, read one after the other.
EngineDeserializeChildren(E, id, trees, i) ==
    IF i > Len(trees) THEN E
    ELSE CHOOSE out \in
            {EngineDeserializeChildren([E1 EXCEPT ![id].children = Append(@, Len(E) + 1)],
                                       id, trees, i + 1) :
                E1 \in {EngineDeserialize(E, trees[i], id)}} : TRUE

\* Anim::Component::deserialize and its overrides: the component is built at
\* address Len(E) + 1; an edge finds its endpoints among the children its parent
\* has read so far, an entry finds its node among the children of its machine.
EngineDeserialize(E, tree, parent) ==
    LET id == Len(E) + 1
        cmp == [NewEngineComponent(tree.type) EXCEPT
                   !.uid = tree.uid,
                   !.condition = tree.condition,
                   !.root_rotation_input_offset = tree.root_rotation_input_offset,
                   !.from = IF tree.type = "edge" THEN EngineGetChildByUID(E, parent, tree.from) ELSE NULL,
                   !.to = IF tree.type = "edge" THEN EngineGetChildByUID(E, parent, tree.to) ELSE NULL]
    IN  CHOOSE out \in
            {[E1 EXCEPT ![id].entries =
                 [i \in 1..Len(tree.entries) |->
                     [node |-> EngineGetChildByUID(E1, id, tree.entries[i]),
                      condition |-> tree.entry_conditions[i]]]] :
                E1 \in {EngineDeserializeChildren(Append(E, cmp), id, tree.children, 1)}} : TRUE

\* Node::serialize: position (with the size) and name.
NodeSerialize(H, c) == <<H.o[c].pos, H.o[c].m_name>>

\* Edge::serialize
EdgeSerialize(H, c) == <<UidOf(H, H.o[c].m_from), UidOf(H, H.o[c].m_to), H.o[c].expression>>

\* The stream written so far, with what the writer ran into: ub when it read a
\* destroyed object, null when it dereferenced a null pointer.
Written(s, ub, null) == [s |-> s, ub |-> ub, null |-> null]

\* One entry of StateMachine::serialize: edge->getTo()->engine_cmp->uid, expression.
EntrySerialize(H, edge) ==
    LET to == H.o[edge].m_to IN
    IF to = NULL THEN Written(<<>>, ~H.o[edge].live, TRUE)
    ELSE Written(<<UidOf(H, to), H.o[edge].expression>>,
                 ~H.o[edge].live \/ ~H.o[to].live, FALSE)

RECURSIVE ComponentSerialize(_, _)
RECURSIVE ChildrenSerialize(_, _, _)
RECURSIVE EntriesSerialize(_, _, _)

\* The loop of Container::serialize from child i on.
ChildrenSerialize(H, cs, i) ==
    IF i > Len(cs) THEN Written(<<>>, FALSE, FALSE)
    ELSE LET c == cs[i]
             head == IF H.o[c].engine_cmp = NULL THEN Written(<<NoUid>>, FALSE, FALSE)
                     ELSE LET w == ComponentSerialize(H, c)
                          IN  Written(<<UidOf(H, c)>> \o w.s, w.ub, w.null)
             rest == ChildrenSerialize(H, cs, i + 1)
         IN  IF head.null THEN head
             ELSE Written(head.s \o rest.s, head.ub \/ rest.ub, rest.null)

\* The loop of StateMachine::serialize from entry i on.
EntriesSerialize(H, es, i) ==
    IF i > Len(es) THEN Written(<<>>, FALSE, FALSE)
    ELSE LET head == EntrySerialize(H, es[i])
             rest == EntriesSerialize(H, es, i + 1)
         IN  IF head.null THEN head
             ELSE Written(head.s \o rest.s, head.ub \/ rest.ub, rest.null)

\* component->serialize(blob), a virtual call: Edge::serialize, Node::serialize
\* (an animation node) or StateMachine::serialize over Container::serialize.
ComponentSerialize(H, c) ==
    CASE H.o[c].kind = "edge" ->
            IF H.o[c].m_from = NULL \/ H.o[c].m_to = NULL THEN Written(<<>>, FALSE, TRUE)
            ELSE Written(EdgeSerialize(H, c), FALSE, FALSE)
      [] H.o[c].kind = "sm" ->
            LET cs == H.o[c].m_editor_cmps
                children == ChildrenSerialize(H, cs, 1)
                es == H.o[H.o[c].m_entry_node].entries
                ents == EntriesSerialize(H, es, 1)
            IN  IF children.null THEN children
                ELSE Written(NodeSerialize(H, c) \o <<Len(cs)>> \o children.s
                                \o NodeSerialize(H, H.o[c].m_entry_node)
                                \o <<Len(es)>> \o ents.s,
                             children.ub \/ ents.ub, ents.null)
      [] OTHER -> Written(NodeSerialize(H, c), FALSE, FALSE)

\* ---- compile() ----

\* A run of compile(): the heap it works on and, in order, the compile() calls
\* ("compile") and the Condition::compile calls ("condition") it made, each
\* with the editor component it was made for.
CompileRun(H) == [H |-> H, log |-> <<>>]
Logged(r, what, c) == [r EXCEPT !.log = Append(@, <<what, c>>)]

\* Edge::compile that clears a condition it finds compiled.
EdgeCompileToggle(H, d, c) ==
    [H EXCEPT !.e[H.o[c].engine_cmp].condition =
                  IF @ = AlwaysFalse THEN ConditionCompile(H.o[c].expression, d, @)
                  ELSE AlwaysFalse]

\* Edge::compile that keeps a condition it finds compiled.
EdgeCompileStale(H, d, c) ==
    [H EXCEPT !.e[H.o[c].engine_cmp].condition =
                  IF @ = AlwaysFalse THEN ConditionCompile(H.o[c].expression, d, @) ELSE @]

\* Edge::compile
EdgeCompile(H, d, c) ==
    [H EXCEPT !.e[H.o[c].engine_cmp].condition = ConditionCompile(H.o[c].expression, d, @)]

\* AnimationNode::compile
AnimationNodeCompile(H, d, c) ==
    LET root_rotation_input == H.o[c].root_rotation_input IN
    [H EXCEPT !.e[H.o[c].engine_cmp].root_rotation_input_offset =
                  IF root_rotation_input >= 0
                  THEN d.inputs[root_rotation_input + 1].offset
                  ELSE NoOffset]

RECURSIVE EntriesCompile(_, _, _, _)
\* StateMachine::compile, the loop over m_entry_node->entries from the i-th
\* (from 1): the expression of the editor entry is compiled into the engine
\* entry of the same index.  An editor entry that was destroyed is read where
\* it was, an index past the engine entries is written outside the array.
EntriesCompile(r, d, sm, i) ==
    LET H == r.H
        es == H.o[H.o[sm].m_entry_node].entries
        ec == H.o[sm].engine_cmp
    IN  IF i > Len(es) THEN r
        ELSE LET entry == es[i]
                 inside == i <= Len(H.e[ec].entries)
                 H1 == IF inside
                       THEN [H EXCEPT !.e[ec].entries[i].condition =
                                          ConditionCompile(H.o[entry].expression, d, @)]
                       ELSE H
                 H2 == [H1 EXCEPT !.ub = @ \/ ~H.o[entry].live \/ ~inside]
             IN  CHOOSE out \in
                    {EntriesCompile(r1, d, sm, i + 1) :
                        r1 \in {Logged([r EXCEPT !.H = H2], "condition", entry)}} : TRUE

RECURSIVE ChildrenCompile(_, _, _, _)
RECURSIVE Compile(_, _, _)

\* StateMachine::compile: Container::compile (Node::compile, then the children),
\* then the entries.
StateMachineCompile(r, d, c) ==
    CHOOSE out \in
        {EntriesCompile(r1, d, c, 1) :
            r1 \in {ChildrenCompile(Logged(r, "compile", c), d, r.H.o[c].m_editor_cmps, 1)}} : TRUE

\* Container::compile, the loop over m_editor_cmps from the i-th (from 1).
ChildrenCompile(r, d, cs, i) ==
    IF i > Len(cs) THEN r
    ELSE CHOOSE out \in
            {ChildrenCompile(r1, d, cs, i + 1) : r1 \in {Compile(r, d, cs[i])}} : TRUE

\* cmp->compile(), a virtual call: Edge::compile, AnimationNode::compile,
\* StateMachine::compile, EntryEdge::compile (nothing) or Component::compile
\* (nothing, the entry node).
Compile(r, d, c) ==
    CASE r.H.o[c].kind = "edge" ->
            Logged(Logged([r EXCEPT !.H = EdgeCompile(@, d, c)], "compile", c), "condition", c)
      [] r.H.o[c].kind = "anim" ->
            Logged([r EXCEPT !.H = AnimationNodeCompile(@, d, c)], "compile", c)
      [] r.H.o[c].kind = "sm" -> StateMachineCompile(r, d, c)
      [] OTHER -> Logged(r, "compile", c)

\* m_root->compile()
RootCompile(H, d, root) == Compile(CompileRun(H), d, root)

\* ControllerResource::serialize writing the root in front of m_last_uid.
ControllerSerializeRootFirst(H, d, root, last_uid, slots) ==
    LET compiled == RootCompile(H, d, root).H
        w == ComponentSerialize(H, root)
    IN
    [revision |-> Revision,
     engine |-> EngineSerialize(compiled.e, H.o[root].engine_cmp),
     editor |-> w.s \o <<last_uid>> \o <<Len(slots)>> \o slots,
     ub |-> w.ub \/ compiled.ub \/ ~H.o[root].live,
     null |-> w.null]

\* ControllerResource::serialize without m_root->compile() in front: the
\* engine's part is written as the last compile or Enter left it.
ControllerSerializeNoCompile(H, d, root, last_uid, slots) ==
    LET w == ComponentSerialize(H, root) IN
    [revision |-> Revision,
     engine |-> EngineSerialize(H.e, H.o[root].engine_cmp),
     editor |-> <<last_uid>> \o w.s \o <<Len(slots)>> \o slots,
     ub |-> w.ub \/ ~H.o[root].live,
     null |-> w.null]

\* ControllerResource::serialize: m_root->compile(), then the engine's part,
\* then m_last_uid, the root and the animation slots.
ControllerSerialize(H, d, root, last_uid, slots) ==
    LET compiled == RootCompile(H, d, root).H
        w == ComponentSerialize(H, root)
    IN
    [revision |-> Revision,
     engine |-> EngineSerialize(compiled.e, H.o[root].engine_cmp),
     editor |-> <<last_uid>> \o w.s \o <<Len(slots)>> \o slots,
     ub |-> w.ub \/ compiled.ub \/ ~H.o[root].live,
     null |-> w.null]

\* What a reader hands on: the heap and the position of the next integer to read.
\* (The readers below bind the result of a nested read with CHOOSE over a
\* one-element set, so that it is computed once.)
ReadTo(H, pos) == [H |-> H, pos |-> pos]

\* Node::deserialize of component c from position pos of stream s.
NodeDeserialize(H, c, s, pos) ==
    ReadTo([H EXCEPT !.o[c].pos = s[pos], !.o[c].m_name = s[pos + 1]], pos + 2)

\* Edge::deserialize with the two uids taken in the wrong order.
EdgeDeserializeSwapped(H, c, s, pos) ==
    ReadTo([H EXCEPT !.o[c].m_from = GetChildByUID(H, H.o[c].m_parent, s[pos + 1]),
                     !.o[c].m_to = GetChildByUID(H, H.o[c].m_parent, s[pos]),
                     !.o[c].expression = s[pos + 2]],
           pos + 3)

\* Edge::deserialize: the endpoints are assigned again from the uids read.
EdgeDeserialize(H, c, s, pos) ==
    ReadTo([H EXCEPT !.o[c].m_from = GetChildByUID(H, H.o[c].m_parent, s[pos]),
                     !.o[c].m_to = GetChildByUID(H, H.o[c].m_parent, s[pos + 1]),
                     !.o[c].expression = s[pos + 2]],
           pos + 3)

RECURSIVE ComponentDeserialize(_, _, _, _)
RECURSIVE ChildrenDeserialize(_, _, _, _, _)
RECURSIVE EntriesDeserialize(_, _, _, _, _)

\* The loop of Container::deserialize with n children left to read.
ChildrenDeserialize(H, c, s, pos, n) ==
    IF n = 0 THEN ReadTo(H, pos)
    ELSE LET uid == s[pos] IN
         IF uid < 0 THEN ChildrenDeserialize(H, c, s, pos + 1, n - 1)
         ELSE LET engine_child == EngineGetChildByUID(H.e, H.o[c].engine_cmp, uid) IN
              IF engine_child = NULL
              THEN ReadTo([H EXCEPT !.null = TRUE], pos)
              ELSE LET id == Len(H.o) + 1 IN
                   CHOOSE out \in
                       {ChildrenDeserialize([r.H EXCEPT !.o[c].m_editor_cmps = Append(@, id)],
                                            c, s, r.pos, n - 1) :
                           r \in {ComponentDeserialize(CreateComponent(H, engine_child, c),
                                                       id, s, pos + 1)}} : TRUE

\* The loop of StateMachine::deserialize with n entries left to read.
EntriesDeserialize(H, c, s, pos, n) ==
    IF n = 0 THEN ReadTo(H, pos)
    ELSE LET id == Len(H.o) + 1
             node == GetChildByUID(H, c, s[pos])
         IN  CHOOSE out \in
                 {EntriesDeserialize([H1 EXCEPT !.o[c].m_editor_cmps = Append(@, id),
                                               !.o[id].expression = s[pos + 1]],
                                     c, s, pos + 2, n - 1) :
                     H1 \in {NewEntryEdge(H, c, node)}} : TRUE

\* component->deserialize(blob), a virtual call.
ComponentDeserialize(H, c, s, pos) ==
    CASE H.o[c].kind = "edge" -> EdgeDeserialize(H, c, s, pos)
      [] H.o[c].kind = "sm" ->
            LET r1 == NodeDeserialize(H, c, s, pos) IN
            CHOOSE out \in
                {IF r2.H.null THEN r2
                 ELSE LET r3 == NodeDeserialize(r2.H, r2.H.o[c].m_entry_node, s, r2.pos)
                      IN  EntriesDeserialize(r3.H, c, s, r3.pos + 1, s[r3.pos]) :
                    r2 \in {ChildrenDeserialize(r1.H, c, s, r1.pos + 1, s[r1.pos])}} : TRUE
      [] OTHER -> NodeDeserialize(H, c, s, pos)

\* ControllerResource::ControllerResource: an engine root and its editor twin.
FreshHeap ==
    NewStateMachine([o |-> <<>>, e |-> <<NewEngineComponent("sm")>>, ub |-> FALSE,
                     null |-> FALSE], 1, NULL)

\* m_engine_resource->deserialize(blob): TRUE when the engine accepts the
\* stream, which it does not when the revision is not its own or a uid of the
\* engine's part does not resolve.
EngineResourceDeserialize(b) == b.revision = Revision /\ EngineResolvable(b.engine)

\* ControllerResource::deserialize returning false: the engine resource and the
\* root the controller was constructed with were deleted, a new engine resource
\* was created, and m_root still holds the address of the root it deleted;
\* m_last_uid and the slots were not read.
DeserializeFailed(last_uid) ==
    [ok |-> FALSE,
     H |-> [Destroy(FreshHeap, 1) EXCEPT !.e = <<NewEngineComponent("sm")>>],
     m_root |-> 1, m_last_uid |-> last_uid, slots |-> <<>>]

\* ControllerResource::deserialize without the read of m_last_uid: the counter
\* keeps the value the controller had.
ControllerDeserializeKeepUid(b, last_uid) ==
    IF ~EngineResourceDeserialize(b) THEN DeserializeFailed(last_uid)
    ELSE
    LET E == EngineDeserialize(<<>>, b.engine, NULL)
        H1 == CreateComponent([o |-> <<>>, e |-> E, ub |-> FALSE, null |-> FALSE], 1, NULL)
    IN  CHOOSE out \in
            {[ok |-> TRUE, H |-> r.H, m_root |-> 1, m_last_uid |-> last_uid,
              slots |-> SubSeq(b.editor, r.pos + 1, r.pos + b.editor[r.pos])] :
                r \in {ComponentDeserialize(H1, 1, b.editor, 2)}} : TRUE

\* ControllerResource::deserialize without the test of what
\* m_engine_resource->deserialize returned.
ControllerDeserializeUnchecked(b, last_uid) ==
    LET E == EngineDeserialize(<<>>, b.engine, NULL)
        H1 == CreateComponent([o |-> <<>>, e |-> E, ub |-> FALSE, null |-> FALSE], 1, NULL)
    IN  CHOOSE out \in
            {[ok |-> TRUE, H |-> r.H, m_root |-> 1, m_last_uid |-> b.editor[1],
              slots |-> SubSeq(b.editor, r.pos + 1, r.pos + b.editor[r.pos])] :
                r \in {ComponentDeserialize(H1, 1, b.editor, 2)}} : TRUE

\* ControllerResource::deserialize of the stream b into a controller whose
\* counter is last_uid: the old engine resource and root are deleted, the engine
\* reads its part, then m_last_uid, the root and the slots are read.
ControllerDeserialize(b, last_uid) ==
    IF ~EngineResourceDeserialize(b) THEN DeserializeFailed(last_uid)
    ELSE
    LET E == EngineDeserialize(<<>>, b.engine, NULL)
        H1 == CreateComponent([o |-> <<>>, e |-> E, ub |-> FALSE, null |-> FALSE], 1, NULL)
    IN  CHOOSE out \in
            {[ok |-> TRUE, H |-> r.H, m_root |-> 1, m_last_uid |-> b.editor[1],
              slots |-> SubSeq(b.editor, r.pos + 1, r.pos + b.editor[r.pos])] :
                r \in {ComponentDeserialize(H1, 1, b.editor, 2)}} : TRUE

\* The elements of a sequence.
Range(seq) == {seq[i] : i \in 1..Len(seq)}

\* The addresses an editor component holds.
EditorRefs(r) ==
    ({r.m_parent, r.m_selected_component, r.m_entry_node, r.m_from, r.m_to}
        \cup Range(r.m_edges) \cup Range(r.m_in_edges)
        \cup Range(r.m_editor_cmps) \cup Range(r.entries)) \ {NULL}

\* The addresses an engine component holds.
EngineRefs(r) ==
    ({r.from, r.to} \cup Range(r.children)
        \cup {r.entries[i].node : i \in 1..Len(r.entries)}) \ {NULL}

RECURSIVE EditorReach(_, _)
\* The editor components some chain of pointers from those in S leads to.
EditorReach(o, S) ==
    LET T == S \cup UNION {EditorRefs(o[a]) : a \in S}
    IN  IF T = S THEN S ELSE EditorReach(o, T)

RECURSIVE EngineReach(_, _)
\* The engine components some chain of pointers from those in S leads to.
EngineReach(e, S) ==
    LET T == S \cup UNION {EngineRefs(e[a]) : a \in S}
    IN  IF T = S THEN S ELSE EngineReach(e, T)

\* Position of address a in the sequence of addresses kept, NULL for NULL.
Rank(kept, a) ==
    IF a = NULL THEN NULL ELSE CHOOSE i \in 1..Len(kept) : kept[i] = a

\* The allocator has the memory of the objects that were deleted, and nothing
\* tells apart two heaps that differ in objects no pointer leads to, or in the
\* addresses of the others: the objects a chain of pointers from the root or
\* the engine root leads to (destroyed ones among them) are kept, in address
\* order.
Reclaim(H, root) ==
    LET reach == EditorReach(H.o, {root})
        engine_reach ==
            EngineReach(H.e, {1} \cup ({H.o[a].engine_cmp : a \in reach} \ {NULL}))
        K == SelectSeq([a \in 1..Len(H.o) |-> a], LAMBDA a : a \in reach)
        EK == SelectSeq([a \in 1..Len(H.e) |-> a], LAMBDA a : a \in engine_reach)
        R(a) == Rank(K, a)
        ER(a) == Rank(EK, a)
        Moved(r) ==
            [r EXCEPT !.m_parent = R(@), !.engine_cmp = ER(@),
                      !.m_selected_component = R(@), !.m_entry_node = R(@),
                      !.m_from = R(@), !.m_to = R(@),
                      !.m_edges = [i \in 1..Len(@) |-> R(@[i])],
                      !.m_in_edges = [i \in 1..Len(@) |-> R(@[i])],
                      !.m_editor_cmps = [i \in 1..Len(@) |-> R(@[i])],
                      !.entries = [i \in 1..Len(@) |-> R(@[i])]]
        EngineMoved(r) ==
            [r EXCEPT !.from = ER(@), !.to = ER(@),
                      !.children = [i \in 1..Len(@) |-> ER(@[i])],
                      !.entries = [i \in 1..Len(@) |-> [@[i] EXCEPT !.node = ER(@)]]]
    IN  IF reach = 1..Len(H.o) /\ engine_reach = 1..Len(H.e)
        THEN H
        ELSE [H EXCEPT !.o = [i \in 1..Len(K) |-> Moved(H.o[K[i]])],
                       !.e = [i \in 1..Len(EK) |-> EngineMoved(H.e[EK[i]])]]

\* The heap the operators above work on, from the variables.
Heap == [o |-> objs, e |-> eobjs, ub |-> FALSE, null |-> FALSE]

\* The state machines the editor can show (AnimationEditor::setContainer).
LiveStateMachines == {c \in 1..Len(objs) : objs[c].live /\ objs[c].kind = "sm"}

\* Editor components a new component of that type takes: a state machine
\* comes with its entry node.
ObjsOf(type) == IF type = "sm" THEN 2 ELSE 1

\* ControllerResource::createUID
CreateUID == m_last_uid + 1

\* An operation that ran into an access to a destroyed object either stops the
\* process or goes on with the bytes the destroyed object left behind; one that
\* dereferenced a null pointer stops the process.  The memory of a stopped
\* process is gone.
Outcome(H) ==
    \/ /\ H.ub \/ H.null
       /\ crashed' = TRUE
       /\ objs' = <<>>
       /\ eobjs' = <<>>
    \/ /\ ~H.null
       /\ LET K == Reclaim(H, m_root) IN objs' = K.o /\ eobjs' = K.e
       /\ UNCHANGED crashed

\* The components drawn in state machine sm (its m_editor_cmps).
ChildrenOf(sm) == {objs[sm].m_editor_cmps[i] : i \in 1..Len(objs[sm].m_editor_cmps)}

\* Context menu "Create > Simple" / "Create > State machine".
CreateStateAction ==
    /\ ~crashed
    /\ m_last_uid < MaxUID
    /\ \E sm \in LiveStateMachines, type \in {"anim", "sm"}, pos \in Positions :
          /\ Len(objs) + ObjsOf(type) <= MaxObjs
          /\ Outcome(CreateState(Heap, sm, type, pos, CreateUID))
    /\ m_last_uid' = CreateUID
    /\ loaded' = FALSE
    /\ UNCHANGED <<m_root, m_animation_slots, blob>>
    /\ UNCHANGED evars
    /\ UNCHANGED dvars

\* StateMachine::drawInside, right button released over hit_cmp while a new edge
\* is dragged from m_drag_source: hit_cmp is the entry node.
NewEntryEdgeToSource ==
    /\ ~crashed
    /\ Len(objs) + ObjsOf("entry_edge") <= MaxObjs
    /\ \E sm \in LiveStateMachines :
       \E drag_source \in {c \in ChildrenOf(sm) : IsNode(Heap, c)} :
          LET hit_cmp == objs[sm].m_entry_node IN
          /\ hit_cmp # drag_source /\ IsNode(Heap, hit_cmp)
          /\ LET r == NewEdgeReleased(Heap, sm, drag_source, hit_cmp, m_last_uid)
             IN  Outcome(r.H) /\ m_last_uid' = r.m_last_uid
    /\ loaded' = FALSE
    /\ UNCHANGED <<m_root, m_animation_slots, blob>>
    /\ UNCHANGED evars
    /\ UNCHANGED dvars

\* The same gesture started on the entry node and released over a node.
NewEntryEdgeToHit ==
    /\ ~crashed
    /\ Len(objs) + ObjsOf("entry_edge") <= MaxObjs
    /\ \E sm \in LiveStateMachines :
       \E hit_cmp \in ChildrenOf(sm) :
          LET drag_source == objs[sm].m_entry_node IN
          /\ hit_cmp # drag_source /\ IsNode(Heap, hit_cmp)
          /\ hit_cmp # objs[sm].m_entry_node
          /\ LET r == NewEdgeReleased(Heap, sm, drag_source, hit_cmp, m_last_uid)
             IN  Outcome(r.H) /\ m_last_uid' = r.m_last_uid
    /\ loaded' = FALSE
    /\ UNCHANGED <<m_root, m_animation_slots, blob>>
    /\ UNCHANGED evars
    /\ UNCHANGED dvars

\* The same gesture between two nodes, neither the entry node: a new Edge.
NewEdgeAction ==
    /\ ~crashed
    /\ m_last_uid < MaxUID
    /\ Len(objs) + ObjsOf("edge") <= MaxObjs
    /\ \E sm \in LiveStateMachines :
       \E drag_source \in {c \in ChildrenOf(sm) : IsNode(Heap, c)}, hit_cmp \in ChildrenOf(sm) :
          /\ hit_cmp # drag_source /\ IsNode(Heap, hit_cmp)
          /\ hit_cmp # objs[sm].m_entry_node
          /\ drag_source # objs[sm].m_entry_node
          /\ LET r == NewEdgeReleased(Heap, sm, drag_source, hit_cmp, m_last_uid)
             IN  Outcome(r.H) /\ m_last_uid' = r.m_last_uid
    /\ loaded' = FALSE
    /\ UNCHANGED <<m_root, m_animation_slots, blob>>
    /\ UNCHANGED evars
    /\ UNCHANGED dvars

\* The same gesture released over the node it started on, or over a component
\* that is no node: nothing is created.
NewEdgeRejected ==
    /\ ~crashed
    /\ \E sm \in LiveStateMachines :
       \E drag_source \in {c \in ChildrenOf(sm) : IsNode(Heap, c)}, hit_cmp \in ChildrenOf(sm) :
          /\ ~(hit_cmp # drag_source /\ IsNode(Heap, hit_cmp))
          /\ LET r == NewEdgeReleased(Heap, sm, drag_source, hit_cmp, m_last_uid)
             IN  Outcome(r.H) /\ m_last_uid' = r.m_last_uid
    /\ UNCHANGED <<m_root, m_animation_slots, blob, loaded>>
    /\ UNCHANGED evars
    /\ UNCHANGED dvars

\* StateMachine::drawInside, right button released over hit_cmp while no new
\* edge is dragged: hit_cmp becomes m_context_cmp and the selected component.
ContextClicked(H, sm, hit_cmp) == [H EXCEPT !.o[sm].m_selected_component = hit_cmp]

\* Context menu "Remove" without the test m_context_cmp != m_entry_node.
RemoveAnyChild(sm, context_cmp) ==
    /\ ~crashed
    /\ sm \in LiveStateMachines
    /\ context_cmp \in ChildrenOf(sm)
    /\ LET H1 == Destroy(ContextClicked(Heap, sm, context_cmp), context_cmp)
           H2 == [H1 EXCEPT !.o[sm].m_selected_component =
                                IF @ = context_cmp THEN NULL ELSE @]
       IN  Outcome(H2)
    /\ loaded' = FALSE
    /\ UNCHANGED <<m_root, m_last_uid, m_animation_slots, blob>>
    /\ UNCHANGED evars
    /\ UNCHANGED dvars

\* Context menu "Remove" in state machine sm, opened by a right click over
\* context_cmp (m_context_cmp = context_cmp).
Remove(sm, context_cmp) ==
    /\ ~crashed
    /\ sm \in LiveStateMachines
    /\ context_cmp \in ChildrenOf(sm) \ {objs[sm].m_entry_node}
    /\ LET H1 == Destroy(ContextClicked(Heap, sm, context_cmp), context_cmp)
           H2 == [H1 EXCEPT !.o[sm].m_selected_component =
                                IF @ = context_cmp THEN NULL ELSE @]
       IN  Outcome(H2)
    /\ loaded' = FALSE
    /\ UNCHANGED <<m_root, m_last_uid, m_animation_slots, blob>>
    /\ UNCHANGED evars
    /\ UNCHANGED dvars

\* Context menu "Remove" on some component of some state machine shown.
RemoveAction ==
    \E sm \in LiveStateMachines : \E context_cmp \in ChildrenOf(sm) : Remove(sm, context_cmp)

\* The controller is saved and closed: ControllerResource::serialize writes the
\* file, then ~ControllerResource releases the engine resource and the root.  A
\* file is read by the session that follows the one that wrote it.
SaveAndClose ==
    /\ ~crashed
    /\ m_root # NULL
    /\ LET b == ControllerSerialize(Heap, decl, m_root, m_last_uid, m_animation_slots) IN
       \/ /\ b.ub \/ b.null
          /\ crashed' = TRUE
          /\ objs' = <<>>
          /\ eobjs' = <<>>
          /\ UNCHANGED <<m_root, m_last_uid, m_animation_slots, blob, loaded>>
       \/ /\ ~b.null
          /\ blob' = [revision |-> b.revision, engine |-> b.engine, editor |-> b.editor]
          /\ objs' = <<>>
          /\ eobjs' = <<>>
          /\ m_root' = NULL
          /\ m_last_uid' = 0
          /\ m_animation_slots' = <<>>
          /\ loaded' = FALSE
          /\ UNCHANGED crashed
    /\ UNCHANGED evars
    /\ UNCHANGED dvars

\* The saved file is opened: a ControllerResource is constructed and
\* ControllerResource::deserialize reads the stream into it.
OpenFile ==
    /\ ~crashed
    /\ m_root = NULL
    /\ blob # <<>>
    /\ LET r == ControllerDeserialize(blob, 0) IN
       IF r.H.null
       THEN /\ crashed' = TRUE
            /\ UNCHANGED <<objs, eobjs, m_root, m_last_uid, m_animation_slots, loaded>>
       ELSE /\ objs' = r.H.o
            /\ eobjs' = r.H.e
            /\ m_root' = r.m_root
            /\ m_last_uid' = r.m_last_uid
            /\ m_animation_slots' = r.slots
            /\ loaded' = r.ok
            /\ UNCHANGED crashed
    /\ blob' = <<>>
    /\ UNCHANGED evars
    /\ UNCHANGED dvars

GraphInit ==
    /\ objs = FreshHeap.o
    /\ eobjs = FreshHeap.e
    /\ m_root = 1
    /\ m_last_uid = 0
    /\ m_animation_slots = <<>>
    /\ blob = <<>>
    /\ crashed = FALSE
    /\ loaded = FALSE

\* The editor is started again after the process stopped: a new controller.
NewController ==
    /\ crashed
    /\ objs' = FreshHeap.o
    /\ eobjs' = FreshHeap.e
    /\ m_root' = 1
    /\ m_last_uid' = 0
    /\ m_animation_slots' = <<>>
    /\ blob' = <<>>
    /\ crashed' = FALSE
    /\ loaded' = FALSE
    /\ UNCHANGED evars
    /\ UNCHANGED dvars

GraphNext ==
    \/ CreateStateAction
    \/ NewEntryEdgeToSource
    \/ NewEntryEdgeToHit
    \/ NewEdgeAction
    \/ NewEdgeRejected
    \/ RemoveAction
    \/ SaveAndClose
    \/ OpenFile
    \/ NewController

Init == EventsInit /\ GraphInit /\ decl = EmptyDecl

Next == GraphNext

Spec == Init /\ [][Next]_vars

SpecEvents == Init /\ [][EventsNext]_vars

\* The event list pass on a track of PassEvents events.
PassInit ==
    /\ events \in TracksOf(PassEvents)
    /\ events_count = PassEvents
    /\ GraphInit
    /\ decl = EmptyDecl

PassNext ==
    \/ \E i \in 0..(PassEvents - 1) : RemoveEvent(i)
    \/ \E i \in 0..(PassEvents - 1), t \in PanelValues : EditTime(i, t)

SpecPass == PassInit /\ [][PassNext]_vars

\* ---- Part 3: editing and compiling a graph ----

\* The components the editor shows: the children of the live state machines.
Shown == UNION {ChildrenOf(sm) : sm \in LiveStateMachines}

\* The input panel declares an input.
AddInput ==
    /\ ~crashed
    /\ decl.inputs_count < InputsCapacity
    /\ \E name \in InputNames \ Declared(decl) : decl' = DeclareInput(decl, name)
    /\ UNCHANGED gvars
    /\ UNCHANGED evars

\* The input panel removes an input.
RemoveInput ==
    /\ ~crashed
    /\ \E i \in 0..(decl.inputs_count - 1) : decl' = RemoveInputAt(decl, i)
    /\ UNCHANGED gvars
    /\ UNCHANGED evars

\* Edge::onGUI: the expression is edited, and compiled when Enter is pressed.
EdgeOnGUI ==
    /\ ~crashed
    /\ \E c \in Shown, text \in Texts, enter \in BOOLEAN :
          /\ objs[c].live /\ objs[c].kind = "edge"
          /\ LET H == [Heap EXCEPT !.o[c].expression = text]
             IN  Outcome(IF enter THEN EdgeCompile(H, decl, c) ELSE H)
    /\ UNCHANGED <<m_root, m_last_uid, m_animation_slots, blob, loaded>>
    /\ UNCHANGED evars
    /\ UNCHANGED dvars

\* EntryEdge::onGUI: the condition text is edited.
EntryEdgeOnGUI ==
    /\ ~crashed
    /\ \E c \in Shown, text \in Texts :
          /\ objs[c].live /\ objs[c].kind = "entry_edge"
          /\ Outcome([Heap EXCEPT !.o[c].expression = text])
    /\ UNCHANGED <<m_root, m_last_uid, m_animation_slots, blob, loaded>>
    /\ UNCHANGED evars
    /\ UNCHANGED dvars

\* AnimationNode::onGUI, the "Root rotation input" combo: item idx is picked,
\* the item after the inputs being "No root motion rotation".
AnimationNodeOnGUI ==
    /\ ~crashed
    /\ \E c \in Shown, idx \in 0..decl.inputs_count :
          /\ objs[c].live /\ objs[c].kind = "anim"
          /\ Outcome([Heap EXCEPT !.o[c].root_rotation_input =
                                      IF idx >= decl.inputs_count THEN NoInput ELSE idx])
    /\ UNCHANGED <<m_root, m_last_uid, m_animation_slots, blob, loaded>>
    /\ UNCHANGED evars
    /\ UNCHANGED dvars

\* m_root->compile(), the first step of ControllerResource::serialize.
CompileAction ==
    /\ ~crashed
    /\ m_root # NULL
    /\ Outcome(RootCompile(Heap, decl, m_root).H)
    /\ UNCHANGED <<m_root, m_last_uid, m_animation_slots, blob, loaded>>
    /\ UNCHANGED evars
    /\ UNCHANGED dvars

\* The graph the compile claims are checked on, built by createState, the
\* new-edge gesture and createEntryEdge: the root holds the state machine N
\* (with the leaf X in it), the state machine M, the Edge N -> M and the
\* Entry Edges to N and to M.
CompileGraph ==
    LET H1 == CreateState(FreshHeap, 1, "sm", 0, 1)
        N == Len(FreshHeap.o) + 1
        H2 == CreateState(H1, N, "anim", 0, 2)
        M == Len(H2.o) + 1
        H3 == CreateState(H2, 1, "sm", 0, 3)
        H4 == CreateEdge(H3, 1, N, M, 4)
        H5 == CreateEntryEdge(H4, 1, N)
    IN  CreateEntryEdge(H5, 1, M)

CompileInit ==
    /\ EventsInit
    /\ objs = CompileGraph.o
    /\ eobjs = CompileGraph.e
    /\ m_root = 1
    /\ m_last_uid = Len(CompileGraph.e) - 1
    /\ m_animation_slots = <<>>
    /\ blob = <<>>
    /\ crashed = FALSE
    /\ loaded = FALSE
    /\ decl = EmptyDecl

CompileNext ==
    \/ AddInput
    \/ RemoveInput
    \/ EdgeOnGUI
    \/ EntryEdgeOnGUI
    \/ AnimationNodeOnGUI
    \/ CompileAction

SpecCompile == CompileInit /\ [][CompileNext]_vars

\* Editing, compiling and saving: the session of SpecCompile, ended by
\* ControllerResource::serialize.
SaveNext ==
    \/ CompileNext
    \/ SaveAndClose

SpecSave == CompileInit /\ [][SaveNext]_vars

\* ---- Part 4: opening saved files ----

\* A uid no component of the saved graph has.
AbsentUid == MaxUID + 1

\* The animation slots of the saved controller (the editor's slot panel fills
\* m_animation_slots; here they only come from a file).
SavedSlots == <<"idle">>

\* The file ControllerResource::serialize writes for the graph H.
FileOf(H) ==
    LET b == ControllerSerialize(H, EmptyDecl, 1, Len(H.e) - 1, SavedSlots)
    IN  [revision |-> b.revision, engine |-> b.engine, editor |-> b.editor]

\* The saved graph with AbsentUid as the uid of the engine component that had uid.
Renamed(H, uid) ==
    [H EXCEPT !.e = [k \in 1..Len(H.e) |->
                        IF H.e[k].uid = uid THEN [H.e[k] EXCEPT !.uid = AbsentUid] ELSE H.e[k]]]

\* The positions of the editor's part of the file of H that hold uid: where that
\* part differs from the one written when the component has another uid.  These
\* are the uid of the component's own record, the endpoints of the Edges and the
\* targets of the Entry Edges that name it.
UidPositions(H, uid) ==
    LET s == FileOf(H).editor
        t == FileOf(Renamed(H, uid)).editor
    IN  {i \in 1..Len(s) : s[i] # t[i]}

\* The files opened: the file of the saved graph; that file with one uid of the
\* editor's part naming no component; the file stamped with another revision.
LoadStreams ==
    LET f == FileOf(CompileGraph) IN
    {f, [f EXCEPT !.revision = OtherRevision]}
        \cup {[f EXCEPT !.editor[p] = AbsentUid] :
                 p \in UNION {UidPositions(CompileGraph, uid) : uid \in 1..(Len(CompileGraph.e) - 1)}}

LoadInit ==
    /\ EventsInit
    /\ objs = <<>>
    /\ eobjs = <<>>
    /\ m_root = NULL
    /\ m_last_uid = 0
    /\ m_animation_slots = <<>>
    /\ blob \in LoadStreams
    /\ crashed = FALSE
    /\ loaded = FALSE
    /\ decl = EmptyDecl

LoadNext ==
    \/ OpenFile
    \/ RemoveAction
    \/ SaveAndClose
    \/ NewController

SpecLoad == LoadInit /\ [][LoadNext]_vars

(***************************************************************************)
(* Properties of the event track.                                          *)
(***************************************************************************)

RECURSIVE SumOfSizes(_, _)
\* Sum of the size fields of the first n headers of buf.
SumOfSizes(buf, n) ==
    IF n = 0 THEN 0 ELSE HeaderEvSize(buf, n - 1) + SumOfSizes(buf, n - 1)

\* Size of the payload region: the bytes after the headers.
PayloadRegionSize(buf, count) == Len(buf) - HeaderSize * count

\* C1: after any sequence of addEvent and removeEvent, the byte length of the
\* track is (number of events x header size) plus the sum of the declared sizes,
\* and every header's payload range lies inside the payload region.
C1_TrackIntegrity ==
    /\ Len(events) = events_count * HeaderSize + SumOfSizes(events, events_count)
    /\ \A i \in 0..(events_count - 1) :
          /\ HeaderOffset(events, i) >= 0
          /\ HeaderOffset(events, i) + HeaderEvSize(events, i)
                <= PayloadRegionSize(events, events_count)

\* C2: adding one event and then removing it (the last index) returns the byte
\* length of the track to its value before the insertion.
C2_AddThenRemoveRestoresLength ==
    \A fill \in FillBytes :
        Len(removeEvent(newEvent(events, events_count, SetInputEventSize, SET_INPUT, fill),
                        events_count + 1, events_count)) = Len(events)

\* Header slot in the old buffer of the header that is at slot j after the
\* removal of slot index.
SlotBefore(j, index) == IF j < index THEN j ELSE j + 1

\* What removeEvent(index) is to have done between the two states of a step.
RemoveEventPost(index) ==
    LET n == events_count
        removedOffset == HeaderOffset(events, index)
        removedSize == HeaderEvSize(events, index)
    IN  /\ events_count' = n - 1
        /\ Len(events') = Len(events) - HeaderSize - removedSize
        /\ \A j \in 0..(n - 2) :
              LET src == SlotBefore(j, index) IN
              /\ HeaderTime(events', j) = HeaderTime(events, src)
              /\ HeaderType(events', j) = HeaderType(events, src)
              /\ HeaderEvSize(events', j) = HeaderEvSize(events, src)
              /\ HeaderOffset(events', j) =
                    IF HeaderOffset(events, src) > removedOffset
                    THEN HeaderOffset(events, src) - removedSize
                    ELSE HeaderOffset(events, src)
              /\ PayloadOf(events', n - 1, j) = PayloadOf(events, n, src)

\* C3: removeEvent(index) removes the header at index and exactly its payload
\* bytes, and lowers by the removed size the offset of every header whose payload
\* lay after it, so every remaining header addresses the payload it addressed.
C3_RemoveEventSplices ==
    [][\A index \in 0..(MaxAdds - 1) : RemoveEvent(index) => RemoveEventPost(index)]_evars

\* What "Add event" is to have done between the two states of a step.
AddEventPost ==
    LET n == events_count
        old_payload_size == PayloadRegionSize(events, n)
    IN  /\ events_count' = n + 1
        /\ Len(events') = Len(events) + HeaderSize + SetInputEventSize
        /\ HeaderOffset(events', n) = old_payload_size
        /\ HeaderEvSize(events', n) = SetInputEventSize
        /\ HeaderType(events', n) = SET_INPUT
        /\ \A j \in 0..(n - 1) :
              /\ HeaderTime(events', j) = HeaderTime(events, j)
              /\ HeaderType(events', j) = HeaderType(events, j)
              /\ HeaderEvSize(events', j) = HeaderEvSize(events, j)
              /\ HeaderOffset(events', j) = HeaderOffset(events, j)
              /\ PayloadOf(events', n + 1, j) = PayloadOf(events, n, j)

PayloadTiling(buf, count) ==
    LET region == 0..(PayloadRegionSize(buf, count) - 1)
        PayloadRange(i) == HeaderOffset(buf, i)..(HeaderOffset(buf, i) + HeaderEvSize(buf, i) - 1)
    IN  /\ \A i, j \in 0..(count - 1) : i # j => PayloadRange(i) \cap PayloadRange(j) = {}
        /\ \A b \in region : \E i \in 0..(count - 1) : b \in PayloadRange(i)
        /\ \A i \in 0..(count - 1) : PayloadRange(i) \subseteq region

\* The header fields at slot i, without the offset.
HeaderIdentity(buf, i) == <<HeaderTime(buf, i), HeaderType(buf, i), HeaderEvSize(buf, i)>>

\* A step keeps the headers in insertion order: an add leaves the old headers
\* where they were, a removal closes the gap without reordering.
HeaderOrderStep ==
    /\ AddEvent =>
          \A j \in 0..(events_count - 1) :
              HeaderIdentity(events', j) = HeaderIdentity(events, j)
    /\ \A index \in 0..(MaxAdds - 1) :
          RemoveEvent(index) =>
              \A j \in 0..(events_count - 2) :
                  HeaderIdentity(events', j) = HeaderIdentity(events, SlotBefore(j, index))

\* C5: after any sequence of addEvent and removeEvent the remaining headers are
\* in insertion order and their payload ranges tile the payload region exactly
\* (no overlap, no byte outside every range).
C5_OrderAndTiling ==
    [][HeaderOrderStep /\ PayloadTiling(events', events_count')]_evars

\* C28: in the event list pass of Node::onGUI, removeEvent(index) is the last
\* thing the pass does: the pass's result is the buffer removeEvent left, the
\* step "removeEvent" ends its log, and every header bound in the pass was
\* bound before it, for an event up to index, with the count of before.
C28_RemoveStopsPass ==
    [][\A index \in 0..(PassEvents - 1) :
          RemoveEvent(index) =>
              \A open \in SUBSET (0..(events_count - 1)) :
                  index \in open =>
                      LET p == EventListPass(events, events_count, open, index, 0, <<>>)
                          n == Len(p.log)
                      IN  /\ p.events = events' /\ p.events_count = events_count'
                          /\ n >= 2 /\ p.log[n] = PassStep("removeEvent", index)
                          /\ \A k \in 1..(n - 1) :
                                p.log[k].op = "header" /\ p.log[k].index <= index]_vars

\* An event was removed from a list of three, where two are left to show.
C28_Witness ==
    /\ events_count = 2
    /\ Len(events) > events_count * (HeaderSize + SetInputEventSize)

(***************************************************************************)
(* Properties of the editor graph.                                         *)
(***************************************************************************)

\* The live editor components that have an engine twin.
LiveTwins == {c \in 1..Len(objs) : objs[c].live /\ objs[c].engine_cmp # NULL}

\* No edge or entry edge of the controller is destroyed or has a destroyed or
\* missing endpoint: in the child lists, the adjacency lists, the editor entry
\* lists and the engine entry lists of the live state machines.
NoDanglingEdge ==
    \A sm \in LiveStateMachines :
        LET children == ChildrenOf(sm)
            entry_node == objs[sm].m_entry_node
            engine_sm == eobjs[objs[sm].engine_cmp]
            LiveNodeOf(n) == n # NULL /\ objs[n].live /\ n \in children
        IN  /\ \A c \in children :
               /\ objs[c].live
               /\ objs[c].kind = "edge" => LiveNodeOf(objs[c].m_from) /\ LiveNodeOf(objs[c].m_to)
               /\ objs[c].kind = "entry_edge" => LiveNodeOf(objs[c].m_to)
               /\ \A e \in Range(objs[c].m_edges) \cup Range(objs[c].m_in_edges) :
                     /\ objs[e].live
                     /\ LiveNodeOf(objs[e].m_from) /\ LiveNodeOf(objs[e].m_to)
            /\ \A e \in Range(objs[entry_node].entries) :
                  objs[e].live /\ LiveNodeOf(objs[e].m_to)
            /\ \A i \in 1..Len(engine_sm.entries) :
                  \E n \in children :
                     objs[n].live /\ objs[n].engine_cmp = engine_sm.entries[i].node

\* C6: removing a Node removes every Edge and every Entry Edge that references
\* it: from a graph without dangling edges, a "Remove" of a node leads to a
\* graph in which no Edge or Entry Edge anywhere (child lists, adjacency lists,
\* editor entry list, engine entry list) is destroyed or has a destroyed endpoint.
C6_CascadingDelete ==
    [][\A sm \in 1..MaxObjs, context_cmp \in 1..MaxObjs :
          (NoDanglingEdge /\ Remove(sm, context_cmp) /\ IsNode(Heap, context_cmp))
              => NoDanglingEdge']_vars

\* C7: no two live components with an engine twin share a UID, and the next UID
\* the allocator hands out is the UID of no live component.
C7_UidsUnique ==
    /\ \A a, b \in LiveTwins : a # b => UidOf(Heap, a) # UidOf(Heap, b)
    /\ \A a \in LiveTwins : UidOf(Heap, a) # CreateUID

\* Three UIDs were handed out, one of the components was deleted, two are live.
C7_Witness ==
    /\ ~crashed
    /\ m_last_uid = 3
    /\ Cardinality({c \in LiveTwins : UidOf(Heap, c) # NoUid}) = 2

RECURSIVE View(_, _)
\* What a graph shows of component c: its UID and kind, for an edge the UIDs of
\* its endpoints and its condition, for a state machine its children with an
\* engine twin and its entry edges in the order of the entry list.
View(H, c) ==
    LET obj == H.o[c]
        Uid(n) == IF n = NULL THEN NoUid ELSE UidOf(H, n)
        es == IF obj.kind = "sm" THEN H.o[obj.m_entry_node].entries ELSE <<>>
    IN  [uid |-> UidOf(H, c),
         kind |-> obj.kind,
         from |-> Uid(obj.m_from),
         to |-> Uid(obj.m_to),
         expression |-> obj.expression,
         children |-> {View(H, obj.m_editor_cmps[i]) :
                          i \in {j \in 1..Len(obj.m_editor_cmps) :
                                    H.o[obj.m_editor_cmps[j]].engine_cmp # NULL}},
         entries |-> [i \in 1..Len(es) |->
                         [to |-> Uid(H.o[es[i]].m_to), expression |-> H.o[es[i]].expression]]]

\* serialize of the controller as it is, then deserialize of that stream, gives
\* a graph with the same view, the same last-UID counter and the same slots.
RoundTrip ==
    LET b == ControllerSerialize(Heap, decl, m_root, m_last_uid, m_animation_slots) IN
    /\ ~b.ub /\ ~b.null
    /\ LET r == ControllerDeserialize(b, 0) IN
       /\ ~r.H.null
       /\ View(r.H, r.m_root) = View(Heap, m_root)
       /\ r.m_last_uid = m_last_uid
       /\ r.slots = m_animation_slots

\* C8: for a graph built through createState, edge creation, createEntryEdge
\* and removals, deserializing the stream serialize produces yields a graph
\* with the same UIDs, nodes, nesting, Edges, Entry Edges (targets and order),
\* condition texts, last-UID counter and slot table.
C8_RoundTrip == (~crashed /\ m_root # NULL) => RoundTrip

\* C9: serialize writes the last-UID counter and deserialize restores it, so
\* that every UID of the loaded graph is at most the counter and a later
\* allocation (the counter plus one) differs from all of them.
C9_CounterPersisted ==
    [][/\ (SaveAndClose /\ ~crashed') => blob'.editor[1] = m_last_uid
       /\ (OpenFile /\ loaded') =>
             /\ m_last_uid' = blob.editor[1]
             /\ \A c \in LiveTwins' : UidOf(Heap, c)' <= m_last_uid']_vars

\* A graph was loaded whose counter is ahead of every UID in it.
C9_Witness ==
    /\ loaded
    /\ m_last_uid = 3
    /\ \E c \in LiveTwins : UidOf(Heap, c) # NoUid
    /\ \A c \in LiveTwins : UidOf(Heap, c) < 3

\* C10: every live Edge is in the outgoing list of its from and the incoming
\* list of its to, every element of a node's outgoing (incoming) list is a
\* live Edge whose from (to) is that node; a destroyed Edge is in neither
\* list, and a deserialized Edge is in both.
C10_Adjacency ==
    \A c \in 1..Len(objs) :
        objs[c].live =>
            /\ objs[c].kind = "edge" =>
                  /\ objs[c].m_from # NULL /\ objs[c].m_to # NULL
                  /\ c \in Range(objs[objs[c].m_from].m_edges)
                  /\ c \in Range(objs[objs[c].m_to].m_in_edges)
            /\ \A e \in Range(objs[c].m_edges) :
                  objs[e].live /\ objs[e].kind = "edge" /\ objs[e].m_from = c
            /\ \A e \in Range(objs[c].m_in_edges) :
                  objs[e].live /\ objs[e].kind = "edge" /\ objs[e].m_to = c

\* An Edge that was deserialized connects two live nodes.
C10_Witness ==
    /\ loaded
    /\ \E c \in 1..Len(objs) :
          /\ objs[c].live /\ objs[c].kind = "edge"
          /\ objs[objs[c].m_from].live /\ objs[objs[c].m_to].live
          /\ objs[c].m_from # objs[c].m_to

\* Every live Edge joins two distinct live nodes that are children of the
\* state machine that owns the Edge.
EdgesWellFormed ==
    \A c \in 1..Len(objs) :
        (objs[c].live /\ objs[c].kind = "edge") =>
            LET from == objs[c].m_from
                to == objs[c].m_to
                parent == objs[c].m_parent
            IN  /\ from # NULL /\ to # NULL /\ from # to
                /\ IsNode(Heap, from) /\ IsNode(Heap, to)
                /\ objs[from].live /\ objs[to].live
                /\ objs[from].m_parent = parent /\ objs[to].m_parent = parent
                /\ {c, from, to} \subseteq Range(objs[parent].m_editor_cmps)

\* C11: an Edge is only created between two distinct nodes that are children of
\* the Container that owns it: a new-edge gesture released over its own source
\* or over a component that is no node leaves the child lists, the adjacency
\* lists and the UID counter as they were, and no state holds a self-loop Edge
\* or an Edge whose endpoints have another parent.
C11_EdgeEndpoints ==
    [][/\ NewEdgeRejected => UNCHANGED <<objs, eobjs, m_last_uid>>
       /\ EdgesWellFormed']_vars

\* A gesture was rejected in a graph that has an Edge: two nodes joined by an
\* Edge, over which (or over whose source) a new-edge gesture can be released.
C11_Witness ==
    /\ ~crashed
    /\ \E c \in 1..Len(objs) :
          /\ objs[c].live /\ objs[c].kind = "edge"
          /\ c \in ChildrenOf(objs[c].m_parent)
          /\ objs[objs[c].m_parent].m_selected_component = c

\* C12: every Entry Edge of a Container targets a live Node that is a direct
\* child of that Container and is not the Entry pseudo-node.
C12_EntryEdgeTargets ==
    \A sm \in LiveStateMachines :
        \A c \in ChildrenOf(sm) :
            (objs[c].live /\ objs[c].kind = "entry_edge") =>
                LET to == objs[c].m_to IN
                /\ to # NULL
                /\ objs[to].live
                /\ IsNode(Heap, to)
                /\ to \in ChildrenOf(sm)
                /\ to # objs[sm].m_entry_node

\* C13: every state machine has exactly one Entry pseudo-node, after
\* construction, creations, removals and deserialization; the Entry pseudo-node
\* has no engine twin, hence no UID, and Container::serialize writes nothing
\* for it but the marker -1.
C13_OneEntryNode ==
    \A sm \in LiveStateMachines :
        LET entry_node == objs[sm].m_entry_node
            cmps == objs[sm].m_editor_cmps
        IN  /\ entry_node # NULL
            /\ objs[entry_node].live
            /\ objs[entry_node].kind = "entry_node"
            /\ objs[entry_node].m_parent = sm
            /\ objs[entry_node].engine_cmp = NULL
            /\ {i \in 1..Len(cmps) : objs[cmps[i]].kind = "entry_node"}
                  = {i \in 1..Len(cmps) : cmps[i] = entry_node}
            /\ Cardinality({i \in 1..Len(cmps) : cmps[i] = entry_node}) = 1
            /\ ChildrenSerialize(Heap, <<entry_node>>, 1) = Written(<<NoUid>>, FALSE, FALSE)

\* A graph with a nested state machine was loaded from a stream.
C13_Witness ==
    /\ loaded
    /\ Cardinality(LiveStateMachines) = 2
    /\ \E sm \in LiveStateMachines : Len(objs[sm].m_editor_cmps) >= 2

\* C14: removeChild(c) takes c out of the child list and clears the selection
\* exactly when c was the selected component; after creations, edge creations
\* and removals, cascaded ones included, the selected component of every state
\* machine is none or a live member of its child list.
C14_SelectionLive ==
    \A sm \in LiveStateMachines :
        LET selected == objs[sm].m_selected_component IN
        /\ selected # NULL => (objs[selected].live /\ selected \in ChildrenOf(sm))
        /\ \A c \in ChildrenOf(sm) :
              LET H == ContainerRemoveChild(Heap, sm, c) IN
              /\ c \notin Range(H.o[sm].m_editor_cmps)
              /\ H.o[sm].m_selected_component = IF selected = c THEN NULL ELSE selected

\* The component of UID 1 was removed from the root, which keeps the node of
\* UID 2 and selects nothing.
C14_Witness ==
    /\ ~crashed
    /\ m_root # NULL
    /\ LiveStateMachines = {m_root}
    /\ objs[m_root].m_selected_component = NULL
    /\ \E c \in ChildrenOf(m_root) :
          objs[c].live /\ objs[c].kind = "anim" /\ UidOf(Heap, c) = 2
    /\ \A c \in ChildrenOf(m_root) : objs[c].kind = "anim" => UidOf(Heap, c) # 1

\* What createState(type, pos) on state machine sm leaves: one new component
\* of that type with a UID no live component had, last in the editor child
\* list and in the engine child list of sm, and selected; everything that was
\* there before as it was.
CreateStatePost(sm, type) ==
    LET id == Len(objs) + 1
        eid == Len(eobjs) + 1
        ec == objs[sm].engine_cmp
    IN  /\ ~crashed'
        /\ Len(objs') = Len(objs) + ObjsOf(type)
        /\ Len(eobjs') = Len(eobjs) + 1
        /\ objs'[id].live /\ objs'[id].kind = type
        /\ objs'[id].m_parent = sm /\ objs'[id].engine_cmp = eid
        /\ eobjs'[eid].type = type
        /\ eobjs'[eid].uid # NoUid
        /\ \A c \in 1..Len(objs) :
              (objs[c].live /\ objs[c].engine_cmp # NULL) =>
                  eobjs[objs[c].engine_cmp].uid # eobjs'[eid].uid
        /\ objs'[sm].m_editor_cmps = Append(objs[sm].m_editor_cmps, id)
        /\ eobjs'[ec].children = Append(eobjs[ec].children, eid)
        /\ objs'[sm].m_selected_component = id
        /\ \A c \in (1..Len(objs)) \ {sm} : objs'[c] = objs[c]
        /\ objs'[sm] = [objs[sm] EXCEPT !.m_editor_cmps = Append(@, id),
                                        !.m_selected_component = id]
        /\ \A e \in (1..Len(eobjs)) \ {ec} : eobjs'[e] = eobjs[e]
        /\ eobjs'[ec] = [eobjs[ec] EXCEPT !.children = Append(@, eid)]

\* C15: createState(kind, position) gives the new component a UID that no live
\* component has, appends exactly one new component of the requested kind as
\* the last element of the editor child list and of the engine child list,
\* selects it, and leaves every child, Edge and Entry Edge that was there
\* unchanged.
C15_CreateStateFrame ==
    [][CreateStateAction =>
          \E sm \in LiveStateMachines, type \in {"anim", "sm"} : CreateStatePost(sm, type)]_vars

\* A state was created in a graph that already had an Edge: the new node is
\* selected and last in the child list.
C15_Witness ==
    /\ ~crashed
    /\ m_root # NULL
    /\ LET cmps == objs[m_root].m_editor_cmps IN
       /\ \E i \in 1..Len(cmps) : objs[cmps[i]].kind = "edge"
       /\ objs[Back(cmps)].kind = "anim"
       /\ objs[m_root].m_selected_component = Back(cmps)
       /\ UidOf(Heap, Back(cmps)) = m_last_uid

\* The uids getChildByUID is asked for: the unset uid, those given out, and one
\* not given out yet.
Uids == NoUid..(MaxUID + 1)

\* C16: getChildByUID(uid) returns a direct child whose UID is uid when there
\* is one and null otherwise; what it returns is never the Entry pseudo-node,
\* an Entry Edge, or a component nested in a child state machine.
C16_ChildByUID ==
    \A sm \in LiveStateMachines : \A uid \in Uids :
        LET found == GetChildByUID(Heap, sm, uid)
            Matches(c) == objs[c].engine_cmp # NULL /\ eobjs[objs[c].engine_cmp].uid = uid
        IN  IF \E c \in ChildrenOf(sm) : Matches(c)
            THEN /\ found \in ChildrenOf(sm)
                 /\ Matches(found)
                 /\ objs[found].m_parent = sm
                 /\ objs[found].kind \notin {"entry_node", "entry_edge"}
            ELSE found = NULL

\* The root has an Entry Edge and a nested state machine that has a child of
\* its own: the child's uid is found in the nested state machine only.
C16_Witness ==
    /\ ~crashed
    /\ m_root # NULL
    /\ \E c \in ChildrenOf(m_root) : objs[c].live /\ objs[c].kind = "entry_edge"
    /\ \E sm \in LiveStateMachines \ {m_root} : \E c \in ChildrenOf(sm) :
          /\ objs[c].kind = "anim"
          /\ GetChildByUID(Heap, sm, UidOf(Heap, c)) = c
          /\ GetChildByUID(Heap, m_root, UidOf(Heap, c)) = NULL

\* What compile() leaves in the engine: the offset of every leaf and the
\* condition of every Edge and of every entry.
Compiled(H) ==
    [ec \in 1..Len(H.e) |->
        [root_rotation_input_offset |-> H.e[ec].root_rotation_input_offset,
         condition |-> H.e[ec].condition,
         entries |-> [i \in 1..Len(H.e[ec].entries) |-> H.e[ec].entries[i].condition]]]

\* C17: compile is idempotent: a second compile() with no edit in between
\* leaves every leaf's root-rotation offset, every Edge condition and every
\* Entry Edge condition as the first one left them.
C17_CompileIdempotent ==
    (~crashed /\ m_root # NULL) =>
        LET once == RootCompile(Heap, decl, m_root).H
            twice == RootCompile(once, decl, m_root).H
        IN  /\ Compiled(twice) = Compiled(once)
            /\ twice = once

\* Both inputs are declared, and the graph was compiled with the leaf bound
\* to the second input and the Edge and an entry bound to both: compile() has
\* something to do, and doing it again changes nothing.
C17_Witness ==
    /\ ~crashed
    /\ decl.inputs_count = InputsCapacity
    /\ \E ec \in 1..Len(eobjs) : eobjs[ec].root_rotation_input_offset > 0
    /\ \E ec \in 1..Len(eobjs) : eobjs[ec].condition # AlwaysFalse
    /\ \E ec \in 1..Len(eobjs) : \E i \in 1..Len(eobjs[ec].entries) :
          eobjs[ec].entries[i].condition # AlwaysFalse
    /\ Compiled(RootCompile(Heap, decl, m_root).H) = Compiled(Heap)

\* C18: compile() sets the root-rotation offset of a leaf to the declared
\* offset of its input when that input is among the current inputs, and to -1
\* both when no input is selected and when the stored index is at or past the
\* current input count; no declaration slot past the current inputs is read.
C18_RootRotationOffset ==
    [][CompileAction =>
          \A c \in 1..Len(objs) :
              (objs[c].live /\ objs[c].kind = "anim") =>
                  LET root_rotation_input == objs[c].root_rotation_input IN
                  eobjs'[objs[c].engine_cmp].root_rotation_input_offset =
                      IF root_rotation_input >= 0 /\ root_rotation_input < decl.inputs_count
                      THEN decl.inputs[root_rotation_input + 1].offset
                      ELSE NoOffset]_vars

\* The text names an input that is not among the current inputs.
NamesUndeclared(text) ==
    \E i \in 1..Len(Identifiers(text)) : Identifiers(text)[i] \notin Declared(decl)

\* C19: compile() compiles the current text of every Edge against the current
\* Input Declaration: a text that names a removed input leaves the always-false
\* condition, a text that does not compile leaves the condition that was
\* there, and in both cases the run goes on to the end, the entries of every
\* state machine being compiled as well.
C19_EdgeCompileDegrades ==
    [][CompileAction =>
          /\ ~crashed'
          /\ \A c \in 1..Len(objs) :
                (objs[c].live /\ objs[c].kind = "edge") =>
                    LET text == objs[c].expression
                        before == eobjs[objs[c].engine_cmp].condition
                        after == eobjs'[objs[c].engine_cmp].condition
                    IN  /\ after = ConditionCompile(text, decl, before)
                        /\ (WellFormed(text) /\ NamesUndeclared(text)) => after = AlwaysFalse
                        /\ ~WellFormed(text) => after = before
                        /\ (WellFormed(text) /\ ~NamesUndeclared(text)) =>
                               /\ after.text = text
                               /\ \A i \in 1..Len(after.offsets) :
                                     \E k \in 1..decl.inputs_count :
                                         /\ decl.inputs[k].name = Identifiers(text)[i]
                                         /\ decl.inputs[k].offset = after.offsets[i]
          /\ \A sm \in LiveStateMachines :
                LET es == objs[objs[sm].m_entry_node].entries
                    ec == objs[sm].engine_cmp
                IN  \A i \in 1..Len(es) :
                        eobjs'[ec].entries[i].condition =
                            ConditionCompile(objs[es[i]].expression, decl,
                                             eobjs[ec].entries[i].condition)]_vars

\* An input was removed while the Edge names both, and the graph was compiled
\* since: the Edge has the always-false condition, and an entry whose text is
\* no expression kept the condition compiled into it before.
C19_Witness ==
    /\ ~crashed
    /\ decl.inputs_count < InputsCapacity
    /\ decl.inputs[InputsCapacity].name # ""
    /\ \E c \in 1..Len(objs) :
          /\ objs[c].live /\ objs[c].kind = "edge"
          /\ WellFormed(objs[c].expression) /\ NamesUndeclared(objs[c].expression)
          /\ eobjs[objs[c].engine_cmp].condition = AlwaysFalse
    /\ \E sm \in LiveStateMachines :
          LET es == objs[objs[sm].m_entry_node].entries IN
          \E i \in 1..Len(es) :
              /\ ~WellFormed(objs[es[i]].expression)
              /\ eobjs[objs[sm].engine_cmp].entries[i].condition # AlwaysFalse
    /\ Compiled(RootCompile(Heap, decl, m_root).H) = Compiled(Heap)

RECURSIVE ExpectedLog(_, _)
RECURSIVE ExpectedChildrenLog(_, _, _)

\* The calls the children cs[i..] are to get, in child-list order.
ExpectedChildrenLog(H, cs, i) ==
    IF i > Len(cs) THEN <<>>
    ELSE ExpectedLog(H, cs[i]) \o ExpectedChildrenLog(H, cs, i + 1)

\* The calls compile() on component c is to make: a state machine compiles
\* itself, then its children in child-list order, then the condition of each
\* of its Entry Edges in entry-list order; an Edge compiles its condition.
ExpectedLog(H, c) ==
    CASE H.o[c].kind = "sm" ->
            LET es == H.o[H.o[c].m_entry_node].entries IN
            <<(<<"compile", c>>)>> \o ExpectedChildrenLog(H, H.o[c].m_editor_cmps, 1)
                \o [i \in 1..Len(es) |-> <<"condition", es[i]>>]
      [] H.o[c].kind = "edge" -> <<(<<"compile", c>>), (<<"condition", c>>)>>
      [] OTHER -> <<(<<"compile", c>>)>>

\* C20: compile() on a state machine compiles itself first, then each child in
\* child-list order, recursing, then every Entry Edge condition in entry-list
\* order; the condition of every Edge and of every Entry Edge of the graph is
\* compiled exactly once per call, from that component and into its own engine
\* condition.
C20_CompileOrder ==
    (~crashed /\ m_root # NULL) =>
        LET r == RootCompile(Heap, decl, m_root)
            Times(c) == Cardinality({i \in 1..Len(r.log) : r.log[i] = <<"condition", c>>})
        IN  /\ r.log = ExpectedLog(Heap, m_root)
            /\ \A c \in Shown :
                  (objs[c].live /\ objs[c].kind \in {"edge", "entry_edge"}) => Times(c) = 1
            /\ \A i \in 1..Len(r.log) :
                  r.log[i][1] = "condition" =>
                      /\ objs[r.log[i][2]].live
                      /\ objs[r.log[i][2]].kind \in {"edge", "entry_edge"}
            /\ ~r.H.ub

(***************************************************************************)
(* Properties of opening a file.                                           *)
(***************************************************************************)

\* Some live Edge or Entry Edge among the components o has a null endpoint.
NullEndpoint(o) ==
    \E c \in 1..Len(o) :
        /\ o[c].live
        /\ \/ o[c].kind = "edge" /\ (o[c].m_from = NULL \/ o[c].m_to = NULL)
           \/ o[c].kind = "entry_edge" /\ o[c].m_to = NULL

\* C21: opening a file that names a uid no component has (a child's uid the
\* engine graph lacks, an endpoint of an Edge or a target of an Entry Edge that
\* is none of the children read so far) ends with deserialize reporting
\* failure: the process does not stop, and a load that reports success holds no
\* Edge or Entry Edge with a null endpoint.
C21_UnresolvedUidFails ==
    [][OpenFile => /\ ~crashed'
                   /\ loaded' => ~NullEndpoint(objs')]_vars

\* C22: when ControllerResource::deserialize reports failure, the controller's
\* root is a complete live graph (the previous one or an empty one) and its
\* engine resource is a live engine root: m_root holds the address of a live
\* state machine whose engine twin exists, never that of a released object.
C22_FailureLeavesValid ==
    [][(OpenFile /\ ~crashed' /\ ~loaded') =>
          /\ m_root' \in 1..Len(objs')
          /\ objs'[m_root'].live
          /\ objs'[m_root'].kind = "sm"
          /\ objs'[m_root'].engine_cmp \in 1..Len(eobjs')]_vars

\* C23: the stream starts with the format revision, and deserialize of a stream
\* with another revision returns failure without reading the counter or the
\* slots and without constructing a component: no editor component is live and
\* the engine resource holds only the root it was created with.
C23_RevisionChecked ==
    [][/\ (SaveAndClose /\ ~crashed') => blob'.revision = Revision
       /\ (OpenFile /\ blob.revision # Revision) =>
             /\ ~crashed' /\ ~loaded'
             /\ m_last_uid' = m_last_uid
             /\ m_animation_slots' = m_animation_slots
             /\ \A c \in 1..Len(objs') : ~objs'[c].live
             /\ Len(eobjs') = Len(FreshHeap.e)]_vars

\* A file with another revision was opened and deserialize returned false (in
\* the load model no other file is rejected).
C23_Witness ==
    /\ ~crashed /\ ~loaded
    /\ blob = <<>>
    /\ m_root # NULL /\ ~objs[m_root].live
    /\ Len(eobjs) = Len(FreshHeap.e)

\* C25: the editor's part of the file is m_last_uid first, then the record of the
\* root container, then the slot table (the count, then the names), and
\* deserialize reads the fields in that order: the counter from the first
\* position, the root from the second on, the slots from the end.
C25_Layout ==
    [][/\ (SaveAndClose /\ ~crashed') =>
             LET w == ComponentSerialize(Heap, m_root) IN
             /\ blob'.editor[1] = m_last_uid
             /\ SubSeq(blob'.editor, 2, 1 + Len(w.s)) = w.s
             /\ blob'.editor[2 + Len(w.s)] = Len(m_animation_slots)
             /\ SubSeq(blob'.editor, 3 + Len(w.s), Len(blob'.editor)) = m_animation_slots
       /\ (OpenFile /\ loaded') =>
             LET H == [o |-> objs', e |-> eobjs', ub |-> FALSE, null |-> FALSE]
                 n == Len(m_animation_slots')
                 last == Len(blob.editor)
             IN  /\ m_last_uid' = blob.editor[1]
                 /\ NodeSerialize(H, m_root') = SubSeq(blob.editor, 2, 3)
                 /\ blob.editor[last - n] = n
                 /\ m_animation_slots' = SubSeq(blob.editor, last - n + 1, last)]_vars

\* A file with a counter above the root's position field and with a slot was
\* read.
C25_Witness == loaded /\ m_last_uid > objs[m_root].pos /\ m_animation_slots # <<>>

\* The layout with the root's record first: the editor's part starts with the
\* record of the root, and m_last_uid follows it.
C25_RootFirst ==
    [][(SaveAndClose /\ ~crashed') =>
          LET w == ComponentSerialize(Heap, m_root) IN
          /\ blob'.editor[1] = w.s[1]
          /\ blob'.editor[Len(w.s) + 1] = m_last_uid]_vars

(***************************************************************************)
(* Order of the child list and of the entry list.                          *)
(***************************************************************************)

\* In the child list of every live container of o, both endpoints of each Edge
\* stand before the Edge.
EdgesAfterEndpoints(o) ==
    \A sm \in 1..Len(o) :
        (o[sm].live /\ o[sm].kind = "sm") =>
            LET cs == o[sm].m_editor_cmps IN
            \A i \in 1..Len(cs) :
                o[cs[i]].kind = "edge" =>
                    /\ \E j \in 1..(i - 1) : cs[j] = o[cs[i]].m_from
                    /\ \E j \in 1..(i - 1) : cs[j] = o[cs[i]].m_to

\* C24: in every graph reached by creation, removal, serialize and deserialize
\* the child list of every container, which Container::serialize writes in list
\* order, holds each node before every Edge that references it (the graph a
\* file was read into included); so when a saved file is read, Edge::Edge finds
\* both endpoints among the children read so far and dereferences no null.
C24_NodesBeforeEdges ==
    [][/\ EdgesAfterEndpoints(objs')
       /\ OpenFile => ~crashed']_vars

\* A saved file was read and the graph read holds an Edge between two live nodes.
C24_Witness ==
    /\ loaded
    /\ \E c \in 1..Len(objs) :
          /\ objs[c].live /\ objs[c].kind = "edge"
          /\ objs[objs[c].m_from].live /\ objs[objs[c].m_to].live

\* The engine twin of editor component c, NULL for no component.
TwinOf(c) == IF c = NULL THEN NULL ELSE objs[c].engine_cmp

\* The live Entry Edges of state machine sm in the order of their creation (the
\* order of the child list, to which createEntryEdge appends).
SurvivingEntryEdges(sm) ==
    SelectSeq(objs[sm].m_editor_cmps, LAMBDA c : objs[c].live /\ objs[c].kind = "entry_edge")

\* C26: the entries of the engine state machine, which the runtime walks from
\* the first on, are those of the surviving Entry Edges in the order of their
\* creation: entry i leads to the target of the i-th live Entry Edge created.
C26_EntryOrder ==
    \A sm \in LiveStateMachines :
        LET es == SurvivingEntryEdges(sm)
            ents == eobjs[objs[sm].engine_cmp].entries
        IN  /\ Len(ents) = Len(es)
            /\ \A i \in 1..Len(es) : ents[i].node = TwinOf(objs[es[i]].m_to)

\* C29: in every reachable state the Entry node's list of Entry Edges and the
\* engine's entry list of the same state machine have the same length, and
\* entry i of the engine leads to the target of Entry Edge i of the editor.
C29_EntryListsAligned ==
    \A sm \in LiveStateMachines :
        LET es == objs[objs[sm].m_entry_node].entries
            ents == eobjs[objs[sm].engine_cmp].entries
        IN  /\ Len(es) = Len(ents)
            /\ \A i \in 1..Len(es) : ents[i].node = TwinOf(objs[es[i]].m_to)

\* C30: a destroyed Entry Edge is in none of the lists: every element of the
\* Entry node's list is a live Entry Edge of the state machine's child list,
\* every Entry Edge of the child list is live and in the Entry node's list, and
\* the engine holds one entry for each.
C30_EntryListLive ==
    \A sm \in LiveStateMachines :
        LET es == objs[objs[sm].m_entry_node].entries IN
        /\ \A i \in 1..Len(es) :
              /\ objs[es[i]].live /\ objs[es[i]].kind = "entry_edge"
              /\ es[i] \in ChildrenOf(sm)
        /\ \A c \in ChildrenOf(sm) :
              objs[c].kind = "entry_edge" => (objs[c].live /\ c \in Range(es))
        /\ Len(eobjs[objs[sm].engine_cmp].entries) = Len(SurvivingEntryEdges(sm))

(***************************************************************************)
(* The editor graph and its engine twin.                                   *)
(***************************************************************************)

\* The children of state machine sm that have an engine twin, in list order.
TwinnedChildren(sm) ==
    SelectSeq(objs[sm].m_editor_cmps, LAMBDA c : objs[c].engine_cmp # NULL)

\* C31: in every reachable state the children of a state machine that have an
\* engine twin and the children of the engine state machine correspond one to
\* one in the same order: the i-th twinned editor child is the twin of the i-th
\* engine child (so a twinned component is in the editor's list exactly when
\* its twin is in the engine's).
C31_ChildListsCorrespond ==
    \A sm \in LiveStateMachines :
        LET cs == TwinnedChildren(sm)
            ecs == eobjs[objs[sm].engine_cmp].children
        IN  /\ Len(cs) = Len(ecs)
            /\ \A i \in 1..Len(cs) : objs[cs[i]].engine_cmp = ecs[i]

\* A child was removed from a state machine that still holds two twinned
\* children: more uids were handed out than twinned components are left.
C31_Witness ==
    /\ ~crashed /\ m_root # NULL
    /\ m_root \in LiveStateMachines
    /\ Len(TwinnedChildren(m_root)) >= 2
    /\ m_last_uid > Cardinality({c \in 1..Len(objs) : objs[c].live /\ objs[c].engine_cmp # NULL}) - 1

\* C32: destroying a node or a state machine comes to an end with the destroyed
\* component holding no edge and no child, and without the destructor of a
\* component running a second time or reading past a list: after the context
\* menu's Remove on component c the heap the destructor chain leaves has c
\* destroyed with empty lists and no undefined access on the way.
C32_DestroyCompletes ==
    [][\A sm \in LiveStateMachines : \A c \in ChildrenOf(sm) :
          (Remove(sm, c) /\ IsNode(Heap, c)) =>
              LET H == Destroy(ContextClicked(Heap, sm, c), c) IN
              /\ ~H.o[c].live
              /\ H.o[c].m_edges = <<>> /\ H.o[c].m_in_edges = <<>>
              /\ H.o[c].m_editor_cmps = <<>>
              /\ ~H.ub /\ ~H.null]_vars

(***************************************************************************)
(* Saving an edited graph.                                                 *)
(***************************************************************************)

RECURSIVE SavedRecords(_)
\* The records of the engine's part of a file: this one and those below it.
SavedRecords(tree) ==
    {tree} \cup UNION {SavedRecords(tree.children[i]) : i \in 1..Len(tree.children)}

\* The record of the component with that uid.
SavedRecord(tree, uid) == CHOOSE t \in SavedRecords(tree) : t.uid = uid

\* The offset the selection of leaf c stands for under declaration d.
SelectedOffset(c, d) ==
    IF objs[c].root_rotation_input >= 0
    THEN d.inputs[objs[c].root_rotation_input + 1].offset
    ELSE NoOffset

\* C33: whatever was edited, compiled or declared before, a save that writes
\* a file writes compiled engine data derived from the editor's texts and
\* selections as they are at the save (the texts the same stream holds): the
\* condition of every Edge and of every entry is the one its expression
\* compiles to under the current declaration, and the root-rotation offset of
\* every leaf is the offset of the input it has selected, or none.
C33_SavedDataCompiled ==
    [][(SaveAndClose /\ ~crashed') =>
          \A c \in 1..Len(objs) :
              (objs[c].live /\ objs[c].engine_cmp # NULL) =>
                  LET t == SavedRecord(blob'.engine, UidOf(Heap, c))
                      ec == eobjs[objs[c].engine_cmp]
                  IN  /\ objs[c].kind = "edge" =>
                            t.condition = ConditionCompile(objs[c].expression, decl, ec.condition)
                      /\ objs[c].kind = "anim" =>
                            t.root_rotation_input_offset = SelectedOffset(c, decl)
                      /\ objs[c].kind = "sm" =>
                            LET es == objs[objs[c].m_entry_node].entries IN
                            /\ Len(t.entry_conditions) = Len(es)
                            /\ \A i \in 1..Len(es) :
                                  t.entry_conditions[i] =
                                      ConditionCompile(objs[es[i]].expression, decl,
                                                       ec.entries[i].condition)]_vars

\* A file was written whose Edge and first entry hold the condition over both
\* inputs and whose leaf holds a root-rotation offset.
C33_Witness ==
    /\ ~crashed /\ m_root = NULL /\ blob # <<>>
    /\ \E t \in SavedRecords(blob.engine) :
          t.type = "edge" /\ t.condition.text = "a && b > 1"
    /\ blob.engine.entry_conditions[1].text = "a && b > 1"
    /\ \E t \in SavedRecords(blob.engine) :
          t.type = "anim" /\ t.root_rotation_input_offset # NoOffset

====
